---- MODULE Spec2Model ----
(***************************************************************************)
(* Model of the streaming gateway (proxy-bedrock): the XML tag buffer      *)
(* (pkg/xml_buffer.go), the streaming adapter (pkg/bedrock.go,             *)
(* handleBedrockStreamConverse) and the authentication stage with its rate *)
(* limiter (pkg/auth).                                                     *)
(*                                                                         *)
(* Text is a sequence of one-character strings.  Go's 0-based indices with *)
(* -1 for "not found" are 1-based here with 0 for "not found".             *)
(***************************************************************************)
EXTENDS Integers, Sequences, FiniteSets, Bags, TLC

VARIABLES
    \* ---- XMLTagBuffer (pkg/xml_buffer.go) and the harness that feeds it
    xmlBuffer,      \* [buffer, maxBufferSize]: the XMLTagBuffer object
    received,       \* all chunks passed to ProcessChunk so far, concatenated
    emitted,        \* all strings returned by ProcessChunk/Flush, concatenated
    lastOp,         \* "none" | "chunk" | "flush": the last call made
    lastOut,        \* the string that call returned
    lastFull,       \* buffer + chunk as the last ProcessChunk call saw it
    cuts,           \* lengths of `emitted` right after each ProcessChunk call
    flushes,        \* number of Flush calls made
    \* ---- handleBedrockStreamConverse (pkg/bedrock.go); its XMLTagBuffer is
    \* xmlBuffer
    streamState,            \* "idle" | "streaming" | "returned"
    events,                 \* the provider events read from stream.Events()
    sse,                    \* the SSE events written to the client, in order
    messageStartReceived,
    messageStartSent,
    inputTokens,
    outputTokens,
    cacheReadTokens,
    cacheWriteTokens,
    \* ---- the authentication stage (pkg/auth): RateLimiter, AuthMiddleware
    now,            \* time.Now(), in ticks
    ipAttempts,     \* RateLimiter.ipAttempts: source address -> IPAttempts
    tokenAttempts,  \* RateLimiter.tokenAttempts: token hash -> TokenAttempts
    req,            \* the requests being served: handler slot -> its position and locals
    offered,        \* the credentials the clients of this run present
    budget,         \* number of requests still to arrive in this run
    answered,       \* the latest response of the stage, and what went with it
    fails,          \* source address -> times of its failed attempts since its last success
    attemptsAfter,  \* source address -> attempts (CheckIP calls) since its last failed one
    \* ---- the quota stage (pkg/quota), post-stream processing and the
    \*      daily reset (pkg/database, pkg/scheduler)
    day,            \* CURRENT_DATE (UTC), in days
    quotaUsage,     \* table quota_usage, this month: user -> row
    blocking,       \* table user_blocking_status: user -> row
    rowLock,        \* user -> number of transactions in progress that hold the user's quota_usage row
    job,            \* the requests in progress past the quota stage: a bag of positions and locals
    incoming,       \* number of requests still to arrive at the quota stage
    quotaAnswered,  \* the latest decision of the quota stage
    resetDue,       \* the scheduler's midnight timer has fired and the reset has not run
    resetRan,       \* the last day whose scheduled reset has committed
    debited,        \* user -> cost and number of the UpdateQuotaAndCounters calls that returned nil
    committedToday, \* user -> cost and number of the debits committed on the current day
    admittedToday,  \* user -> requests admitted by the quota stage on the current day
    \* ---- the metrics worker (pkg/metrics/cost.go)
    metricsChan,    \* MetricsWorker.metricsChan: the rows in the buffered channel, oldest first
    batch,          \* the local batch of run()
    stopped,        \* MetricsWorker.stopped
    stopChan,       \* "open" | "closed"
    workerPc,       \* run(): "select" | "returned"
    stopPc,         \* Stop(): "none" | "waiting" (in wg.Wait) | "returned"
    nextRow,        \* the row the next RecordMetric call carries
    lastRecord,     \* the latest RecordMetric call: its row and what it returned
    accepted,       \* the rows for which RecordMetric returned nil
    inserts,        \* the InsertMetric calls made, in order: row, flush number, outcome
    \* ---- the pricing functions (pkg/metrics/cost.go) and their caller
    costModel,      \* modelID passed to the pricing functions
    tokens,         \* the four token counts passed to them
    costPc,         \* "idle" | "input" | "done"
    costResult,     \* what CalculateCostWithCache and CalculateCost returned
    \* ---- the orchestrator (BedrockClient.HandleProxy) and the
    \*      post-processing goroutine it starts (processMetrics)
    hp,             \* the request in HandleProxy: position, caller, locals
    provider,       \* the provider's side of the call: stream open, events left, usage
    response,       \* what the client has been sent: status and SSE events
    post,           \* the post-processing goroutine of the request: position, context, steps
    usageRows,      \* the rows passed to RecordMetric that it accepted
    counters,       \* what UpdateQuotaAndCounters has added for the caller
    callsLeft,      \* number of requests still to arrive at HandleProxy
    \* ---- the translation of system and content blocks
    \*      (convertSystemBlocksWithCache, convertAnthropicToBedrockMessages)
    blocks,         \* the blocks of the request: a system array or a message's content
    blockKind,      \* "system" or "content" once translated
    translated,     \* the provider's blocks the translation returned
    \* ---- the calls of MetricsWorker.Stop and the channels they close
    closes,         \* number of close() calls made on stopChan and on metricsChan
    stopCalls,      \* number of Stop calls made
    \* ---- the logger (pkg/amslog): Logger.log, Logger.worker, Logger.Close
    logger,         \* the Logger object and the positions of worker() and Close()
    logBuffer,      \* Logger.buffer: the entries in the buffered channel, oldest first
    logOutput,      \* the entries written to config.Output, in order, and who wrote each
    logCalls        \* the calls of log made, in order: level, and whether Close had been called

bufVars == <<xmlBuffer, received, emitted, lastOp, lastOut, lastFull, cuts, flushes>>

harnessVars == <<received, emitted, lastOp, lastOut, lastFull, cuts, flushes>>

streamVars == <<streamState, events, sse, messageStartReceived, messageStartSent,
                inputTokens, outputTokens, cacheReadTokens, cacheWriteTokens>>

authVars == <<now, ipAttempts, tokenAttempts, req, offered, budget, answered, fails, attemptsAfter>>

quotaVars == <<day, quotaUsage, blocking, rowLock, job, incoming, quotaAnswered,
               resetDue, resetRan, debited, committedToday, admittedToday>>

\* What the actions of one part leave unchanged of the others
workerVars == <<metricsChan, batch, stopped, stopChan, workerPc, stopPc, nextRow, lastRecord,
                accepted, inserts>>

costVars == <<costModel, tokens, costPc, costResult>>

proxyVars == <<hp, provider, response, post, usageRows, counters, callsLeft>>

\* The parts modelled after the metrics worker
translateVars == <<blocks, blockKind, translated>>

stopVars == <<closes, stopCalls>>

loggerVars == <<logger, logBuffer, logOutput, logCalls>>

laterVars == <<costVars, proxyVars, translateVars, stopVars, loggerVars>>

nonBufVars == <<streamVars, authVars, quotaVars, workerVars, laterVars>>
nonStreamVars == <<harnessVars, authVars, quotaVars, workerVars, laterVars>>
nonAuthVars == <<bufVars, streamVars, quotaVars, workerVars, laterVars>>
nonQuotaVars == <<bufVars, streamVars, authVars, workerVars, laterVars>>
nonWorkerVars == <<bufVars, streamVars, authVars, quotaVars, laterVars>>
nonCostVars == <<bufVars, streamVars, authVars, quotaVars, workerVars, proxyVars, translateVars, stopVars, loggerVars>>
nonProxyVars == <<bufVars, streamVars, authVars, quotaVars, workerVars, costVars, translateVars, stopVars, loggerVars>>
nonTranslateVars == <<bufVars, streamVars, authVars, quotaVars, workerVars, costVars, proxyVars, stopVars, loggerVars>>
nonLoggerVars == <<bufVars, streamVars, authVars, quotaVars, workerVars, costVars, proxyVars,
                   translateVars, stopVars>>
nonStopVars == <<bufVars, streamVars, authVars, quotaVars, costVars, proxyVars, translateVars, loggerVars>>

vars == <<bufVars, streamVars, authVars, quotaVars, workerVars, laterVars>>

----------------------------------------------------------------------------
(* Bounds of the exploration *)

MaxText == 4        \* total characters fed to one buffer
MaxChunk == 2       \* characters in one generated chunk
MaxFlushes == 2     \* Flush calls made at the end of a text
MaxEvents == 5      \* provider events in one stream
MaxRequests == 3    \* requests of one run, presenting any credential
MaxAttempts == 4    \* requests of one run against the rate limiter
MaxTime == 3        \* the last tick of the clock
MaxIncoming == 4    \* requests of one run that reach the quota stage
MaxDay == 2         \* the last day of a run
MaxRows == 4        \* RecordMetric calls of one run
MaxHundreds == 10   \* hundreds of tokens in one count
MaxCalls == 2       \* requests of one run that reach HandleProxy
MaxProviderEvents == 2  \* events of one provider stream
MaxBlocks == 3      \* blocks of one system array or one message's content
MaxStops == 2       \* Stop calls made on one metrics worker
MaxEntries == 4     \* calls of log made on one logger

(* Program constants *)

DefaultMaxBufferSize == 3       \* config.go: default XML_BUFFER_MAX_SIZE
ReadmeMaxBufferSize == 100      \* README: "Tamaño: 100 caracteres"

----------------------------------------------------------------------------
(* Characters and strings *)

LowerCase == {"a","b","c","d","e","f","g","h","i","j","k","l","m",
              "n","o","p","q","r","s","t","u","v","w","x","y","z"}
UpperCase == {"A","B","C","D","E","F","G","H","I","J","K","L","M",
              "N","O","P","Q","R","S","T","U","V","W","X","Y","Z"}

\* The characters chunks are generated from: both brackets, a character that
\* may start a tag and one that may not.
Alphabet == {"<", ">", "a", "1"}

RECURSIVE SeqsUpTo(_, _)
SeqsUpTo(S, n) ==
    IF n = 0 THEN {<<>>}
    ELSE LET shorter == SeqsUpTo(S, n - 1)
         IN shorter \cup {Append(s, c) : s \in {t \in shorter : Len(t) = n - 1}, c \in S}

\* strings.LastIndex(s, c): the last position of c in s, 0 when absent
LastIndex(s, c) ==
    LET hits == {i \in 1..Len(s) : s[i] = c}
    IN IF hits = {} THEN 0 ELSE CHOOSE i \in hits : \A j \in hits : j <= i

\* strings.Index(s, c): the first position of c in s, 0 when absent
Index(s, c) ==
    LET hits == {i \in 1..Len(s) : s[i] = c}
    IN IF hits = {} THEN 0 ELSE CHOOSE i \in hits : \A j \in hits : i <= j

----------------------------------------------------------------------------
(* XMLTagBuffer *)

NewXMLTagBuffer(maxBufferSize) == [buffer |-> <<>>, maxBufferSize |-> maxBufferSize]

\* Mutant: letters are not taken to start a tag
IsLikelyTag_NoLetters(firstChar) ==
    firstChar = "/" \/ firstChar = "!" \/ firstChar = "_"

\* Mutant: any character after '<' is taken to start a tag
IsLikelyTag_AnyChar(firstChar) == TRUE

\* isLikelyTag of ProcessChunk: the character after '<' may start a tag
IsLikelyTag(firstChar) ==
    \/ firstChar \in LowerCase
    \/ firstChar \in UpperCase
    \/ firstChar = "/" \/ firstChar = "!" \/ firstChar = "_"

\* Mutant: the retained tail starts after the '<' instead of at it
ProcessChunk_DropsBracket(b, chunk) ==
    LET fullText == b.buffer \o chunk
        lastOpenBracket == LastIndex(fullText, "<")
        textAfterBracket == SubSeq(fullText, lastOpenBracket, Len(fullText))
        closeBracketPos == Index(textAfterBracket, ">")
        distanceFromEnd == Len(fullText) - (lastOpenBracket - 1)
        sendAll == [b |-> [b EXCEPT !.buffer = <<>>], out |-> fullText]
        retain == [b |-> [b EXCEPT !.buffer = SubSeq(fullText, lastOpenBracket + 1, Len(fullText))],
                   out |-> SubSeq(fullText, 1, lastOpenBracket - 1)]
    IN IF Len(fullText) = 0 THEN [b |-> [b EXCEPT !.buffer = <<>>], out |-> <<>>]
       ELSE IF lastOpenBracket = 0 THEN sendAll
       ELSE IF closeBracketPos # 0 THEN sendAll
       ELSE IF distanceFromEnd <= b.maxBufferSize
            THEN IF Len(textAfterBracket) > 1
                 THEN IF IsLikelyTag(textAfterBracket[2]) THEN retain ELSE sendAll
                 ELSE retain
            ELSE sendAll

\* Mutant: a tail of exactly maxBufferSize characters is already "too far"
ProcessChunk_StrictCap(b, chunk) ==
    LET fullText == b.buffer \o chunk
        lastOpenBracket == LastIndex(fullText, "<")
        textAfterBracket == SubSeq(fullText, lastOpenBracket, Len(fullText))
        closeBracketPos == Index(textAfterBracket, ">")
        distanceFromEnd == Len(fullText) - (lastOpenBracket - 1)
        sendAll == [b |-> [b EXCEPT !.buffer = <<>>], out |-> fullText]
        retain == [b |-> [b EXCEPT !.buffer = textAfterBracket],
                   out |-> SubSeq(fullText, 1, lastOpenBracket - 1)]
    IN IF Len(fullText) = 0 THEN [b |-> [b EXCEPT !.buffer = <<>>], out |-> <<>>]
       ELSE IF lastOpenBracket = 0 THEN sendAll
       ELSE IF closeBracketPos # 0 THEN sendAll
       ELSE IF distanceFromEnd < b.maxBufferSize
            THEN IF Len(textAfterBracket) > 1
                 THEN IF IsLikelyTag(textAfterBracket[2]) THEN retain ELSE sendAll
                 ELSE retain
            ELSE sendAll

\* ProcessChunk: the new buffer object and the text to send
ProcessChunk(b, chunk) ==
    LET fullText == b.buffer \o chunk
        lastOpenBracket == LastIndex(fullText, "<")
        textAfterBracket == SubSeq(fullText, lastOpenBracket, Len(fullText))
        closeBracketPos == Index(textAfterBracket, ">")
        distanceFromEnd == Len(fullText) - (lastOpenBracket - 1)
        sendAll == [b |-> [b EXCEPT !.buffer = <<>>], out |-> fullText]
        retain == [b |-> [b EXCEPT !.buffer = textAfterBracket],
                   out |-> SubSeq(fullText, 1, lastOpenBracket - 1)]
    IN IF Len(fullText) = 0 THEN [b |-> [b EXCEPT !.buffer = <<>>], out |-> <<>>]
       ELSE IF lastOpenBracket = 0 THEN sendAll
       ELSE IF closeBracketPos # 0 THEN sendAll
       ELSE IF distanceFromEnd <= b.maxBufferSize
            THEN IF Len(textAfterBracket) > 1
                 THEN IF IsLikelyTag(textAfterBracket[2]) THEN retain ELSE sendAll
                 ELSE retain
            ELSE sendAll

\* Flush: the new buffer object and the remaining text
Flush(b) == [b |-> [b EXCEPT !.buffer = <<>>], out |-> b.buffer]

HasBufferedContent(b) == Len(b.buffer) > 0

----------------------------------------------------------------------------
(* The rate limiter: pkg/auth/rate_limiter.go *)

\* The limiter's configuration (NewRateLimiterWithConfig), scaled to ticks:
\* the defaults are 10 and 5 attempts, a block of 15 minutes and a window of 1
maxAttemptsPerIP == 2
maxAttemptsPerToken == 2
blockDuration == 2
windowDuration == 1

IPs == {"10.0.0.1"}

\* time.Time{}: the zero time, before every tick
ZeroTime == 0

\* No entry for the key in the map
Absent == [exists |-> FALSE, Count |-> 0, FirstAttempt |-> ZeroTime,
           LastAttempt |-> ZeroTime, BlockedUntil |-> ZeroTime]

IPAttempts(count, first, last) ==
    [exists |-> TRUE, Count |-> count, FirstAttempt |-> first,
     LastAttempt |-> last, BlockedUntil |-> ZeroTime]

\* TokenAttempts has no LastAttempt: the field stays zero
TokenAttempts(count, first) ==
    [exists |-> TRUE, Count |-> count, FirstAttempt |-> first,
     LastAttempt |-> ZeroTime, BlockedUntil |-> ZeroTime]

\* Mutant: the block is checked after the window reset, and a reset lifts it
CheckIP_ResetLiftsBlock(attempts, ip, t) ==
    LET got == IF attempts[ip].exists THEN attempts[ip] ELSE IPAttempts(0, t, t)
        elapsed == t - got.FirstAttempt > windowDuration
        reset == IF elapsed
                 THEN [got EXCEPT !.Count = 0, !.FirstAttempt = t, !.BlockedUntil = ZeroTime]
                 ELSE got
    IN IF t < reset.BlockedUntil
       THEN [attempts |-> [attempts EXCEPT ![ip] = reset], allowed |-> FALSE,
             retryAfter |-> reset.BlockedUntil - t]
       ELSE IF reset.Count >= maxAttemptsPerIP
       THEN [attempts |-> [attempts EXCEPT ![ip] = [reset EXCEPT !.BlockedUntil = t + blockDuration]],
             allowed |-> FALSE, retryAfter |-> blockDuration]
       ELSE [attempts |-> [attempts EXCEPT ![ip] = reset], allowed |-> TRUE, retryAfter |-> 0]

\* Mutant: the limit is reached one attempt late
CheckIP_LimitOffByOne(attempts, ip, t) ==
    LET got == IF attempts[ip].exists THEN attempts[ip] ELSE IPAttempts(0, t, t)
        reset == IF t - got.FirstAttempt > windowDuration
                 THEN [got EXCEPT !.Count = 0, !.FirstAttempt = t]
                 ELSE got
    IN IF t < got.BlockedUntil
       THEN [attempts |-> [attempts EXCEPT ![ip] = got], allowed |-> FALSE,
             retryAfter |-> got.BlockedUntil - t]
       ELSE IF reset.Count > maxAttemptsPerIP
       THEN [attempts |-> [attempts EXCEPT ![ip] = [reset EXCEPT !.BlockedUntil = t + blockDuration]],
             allowed |-> FALSE, retryAfter |-> blockDuration]
       ELSE [attempts |-> [attempts EXCEPT ![ip] = reset], allowed |-> TRUE, retryAfter |-> 0]

\* Mutant: a denial during the block starts the block anew
CheckIP_DenialExtendsBlock(attempts, ip, t) ==
    LET got == IF attempts[ip].exists THEN attempts[ip] ELSE IPAttempts(0, t, t)
        reset == IF t - got.FirstAttempt > windowDuration
                 THEN [got EXCEPT !.Count = 0, !.FirstAttempt = t]
                 ELSE got
    IN IF t < got.BlockedUntil
       THEN [attempts |-> [attempts EXCEPT ![ip] = [got EXCEPT !.BlockedUntil = t + blockDuration]],
             allowed |-> FALSE, retryAfter |-> got.BlockedUntil - t]
       ELSE IF reset.Count >= maxAttemptsPerIP
       THEN [attempts |-> [attempts EXCEPT ![ip] = [reset EXCEPT !.BlockedUntil = t + blockDuration]],
             allowed |-> FALSE, retryAfter |-> blockDuration]
       ELSE [attempts |-> [attempts EXCEPT ![ip] = reset], allowed |-> TRUE, retryAfter |-> 0]

\* CheckIP at time t: the new map, whether the attempt is allowed, and the wait
CheckIP(attempts, ip, t) ==
    LET got == IF attempts[ip].exists THEN attempts[ip] ELSE IPAttempts(0, t, t)
        reset == IF t - got.FirstAttempt > windowDuration
                 THEN [got EXCEPT !.Count = 0, !.FirstAttempt = t]
                 ELSE got
    IN IF t < got.BlockedUntil
       THEN [attempts |-> [attempts EXCEPT ![ip] = got], allowed |-> FALSE,
             retryAfter |-> got.BlockedUntil - t]
       ELSE IF reset.Count >= maxAttemptsPerIP
       THEN [attempts |-> [attempts EXCEPT ![ip] = [reset EXCEPT !.BlockedUntil = t + blockDuration]],
             allowed |-> FALSE, retryAfter |-> blockDuration]
       ELSE [attempts |-> [attempts EXCEPT ![ip] = reset], allowed |-> TRUE, retryAfter |-> 0]

\* CheckToken at time t: a check only, the map is not changed
CheckToken(attempts, tokenHash, t) ==
    IF tokenHash = "" THEN [allowed |-> TRUE, retryAfter |-> 0]
    ELSE IF ~attempts[tokenHash].exists THEN [allowed |-> TRUE, retryAfter |-> 0]
    ELSE IF t < attempts[tokenHash].BlockedUntil
    THEN [allowed |-> FALSE, retryAfter |-> attempts[tokenHash].BlockedUntil - t]
    ELSE [allowed |-> TRUE, retryAfter |-> 0]

\* RecordFailedAttempt at time t: the new maps
RecordFailedAttempt(ipMap, tokenMap, ip, tokenHash, t) ==
    LET ipRec == IF ipMap[ip].exists
                 THEN [ipMap[ip] EXCEPT !.Count = @ + 1, !.LastAttempt = t]
                 ELSE IPAttempts(1, t, t)
        got == IF tokenMap[tokenHash].exists THEN tokenMap[tokenHash] ELSE TokenAttempts(0, t)
        counted == [got EXCEPT !.Count = @ + 1]
        tokenRec == IF counted.Count >= maxAttemptsPerToken
                    THEN [counted EXCEPT !.BlockedUntil = t + blockDuration]
                    ELSE counted
    IN [ip |-> [ipMap EXCEPT ![ip] = ipRec],
        token |-> IF tokenHash # "" THEN [tokenMap EXCEPT ![tokenHash] = tokenRec] ELSE tokenMap]

\* RecordSuccessfulAttempt at time t: the new map of sources
RecordSuccessfulAttempt(ipMap, ip, t) ==
    IF ipMap[ip].exists
    THEN [ipMap EXCEPT ![ip] = [@ EXCEPT !.Count = 0, !.FirstAttempt = t]]
    ELSE ipMap

----------------------------------------------------------------------------
(* Credentials, the token table, and their validation: pkg/auth/jwt.go,
   pkg/database/database.go *)

\* JWTConfig, as the README's example sets it
SecretKey == "tu_secret_key_muy_seguro"
Issuer == "bedrock-proxy"
Audience == "bedrock-api"

NeverExpires == {}

\* What a request carries: its headers and, for a JWT, what the token holds.
\* exp is the ExpiresAt claim ({} when the token has none).
Credential(header, token, signedWith, exp, iss, aud, user_id) ==
    [header |-> header, token |-> token, alg |-> "HS256", signedWith |-> signedWith,
     exp |-> exp, iss |-> iss, aud |-> aud, user_id |-> user_id]

Credentials ==
    { Credential("bearer", "good", SecretKey, {MaxTime + 1}, Issuer, Audience, "alice"),
      Credential("apikey", "expiring", SecretKey, {2}, Issuer, Audience, "alice"),
      Credential("bearer", "stale", SecretKey, NeverExpires, Issuer, Audience, "alice"),
      Credential("bearer", "revoked", SecretKey, {MaxTime + 1}, Issuer, Audience, "alice"),
      Credential("bearer", "forged", "another key", {MaxTime + 1}, Issuer, Audience, "alice"),
      Credential("bearer", "mismatch", SecretKey, {MaxTime + 1}, Issuer, Audience, "bob"),
      Credential("bearer", "wrongiss", SecretKey, {MaxTime + 1}, "someone else", Audience, "alice"),
      Credential("bearer", "wrongaud", SecretKey, {MaxTime + 1}, Issuer, "another api", "alice"),
      Credential("none", "", "", NeverExpires, "", "", "") }

\* HashToken: SHA-256 of the token string, taken to be injective
HashToken(tokenString) == "sha256:" \o tokenString

\* ExtractBearerToken / the x-api-key fallback: the token string, or an error
ExtractToken(c) ==
    IF c.header = "bearer" \/ c.header = "apikey"
    THEN [ok |-> TRUE, tokenString |-> c.token]
    ELSE [ok |-> FALSE, tokenString |-> ""]

TokenHashes == {HashToken(ExtractToken(c).tokenString) : c \in {x \in Credentials : ExtractToken(x).ok}}

\* The rows of tokens joined with users: every token above except the forged
\* one was issued to alice, an active user
TokenRow(tokenHash) ==
    IF tokenHash \in {HashToken(t) : t \in {"good", "expiring", "mismatch", "wrongiss", "wrongaud"}}
    THEN {[user_id |-> "alice", is_revoked |-> FALSE, expires_at |-> MaxTime + 1, is_active |-> TRUE]}
    ELSE IF tokenHash = HashToken("stale")
    THEN {[user_id |-> "alice", is_revoked |-> FALSE, expires_at |-> 2, is_active |-> TRUE]}
    ELSE IF tokenHash = HashToken("revoked")
    THEN {[user_id |-> "alice", is_revoked |-> TRUE, expires_at |-> MaxTime + 1, is_active |-> TRUE]}
    ELSE {}

\* Mutant: the ExpiresAt claim is not looked at
ValidateToken_IgnoresExp(c, secretKey, t) ==
    IF c.alg \notin {"HS256", "HS384", "HS512"} THEN [ok |-> FALSE, UserID |-> ""]
    ELSE IF c.signedWith # secretKey THEN [ok |-> FALSE, UserID |-> ""]
    ELSE [ok |-> TRUE, UserID |-> c.user_id]

\* ValidateToken (jwt.go) at time t: jwt.ParseWithClaims accepts an HMAC
\* algorithm, a signature made with secretKey and an exp that has not passed;
\* neither the issuer nor the audience is given to it or compared
ValidateToken(c, secretKey, t) ==
    IF c.alg \notin {"HS256", "HS384", "HS512"} THEN [ok |-> FALSE, UserID |-> ""]
    ELSE IF c.signedWith # secretKey THEN [ok |-> FALSE, UserID |-> ""]
    ELSE IF c.exp # {} /\ ~(t < (CHOOSE e \in c.exp : TRUE)) THEN [ok |-> FALSE, UserID |-> ""]
    ELSE [ok |-> TRUE, UserID |-> c.user_id]

\* Mutant: the query filters on neither is_revoked nor expires_at
DbValidateToken_NoFilter(tokenHash, t) ==
    LET rows == {r \in TokenRow(tokenHash) : r.is_active}
    IN IF rows = {} THEN [ok |-> FALSE, UserID |-> "", IsRevoked |-> FALSE]
       ELSE LET r == CHOOSE x \in rows : TRUE
            IN [ok |-> TRUE, UserID |-> r.user_id, IsRevoked |-> r.is_revoked]

\* Database.ValidateToken at time t: the row of a non-revoked, unexpired token
\* of an active user, or an error
DbValidateToken(tokenHash, t) ==
    LET rows == {r \in TokenRow(tokenHash) :
                    ~r.is_revoked /\ r.expires_at > t /\ r.is_active}
    IN IF rows = {} THEN [ok |-> FALSE, UserID |-> "", IsRevoked |-> FALSE]
       ELSE LET r == CHOOSE x \in rows : TRUE
            IN [ok |-> TRUE, UserID |-> r.user_id, IsRevoked |-> r.is_revoked]

----------------------------------------------------------------------------
(* The tables behind the quota stage and the statements run on them:
   pkg/database/database.go.  Money is counted in whole units. *)

Users == {"alice", "bob"}

\* Table users: the limits of a user
UserRow(u) ==
    [monthly_quota_usd |-> 4, daily_limit_usd |-> 3, daily_request_limit |-> 2,
     is_active |-> TRUE]

\* NULL and a value of a nullable column
Null == {}
Val(v) == {v}

\* No row for the user in quota_usage / in user_blocking_status
NoUsage == [exists |-> FALSE, total_cost_usd |-> 0, total_requests |-> 0]

NoBlocking ==
    [exists |-> FALSE, daily_cost_usd |-> 0, daily_requests |-> 0, is_blocked |-> FALSE,
     blocked_reason |-> Null, blocked_at |-> Null, blocked_until |-> Null,
     blocked_by_admin_id |-> Null, requests_at_blocking |-> Null,
     last_request_at |-> Null, last_reset_at |-> Null]

\* A row blocked by an administrator some day before the first
AdminBlocked ==
    [exists |-> TRUE, daily_cost_usd |-> 1, daily_requests |-> 1, is_blocked |-> TRUE,
     blocked_reason |-> Val("Blocked by administrator"), blocked_at |-> Val(0),
     blocked_until |-> Val(1), blocked_by_admin_id |-> Val("admin"),
     requests_at_blocking |-> Val(1), last_request_at |-> Val(0), last_reset_at |-> Null]

\* CheckQuota: the user's limits and usage, with COALESCE for missing rows
CheckQuota(usage, status, u) ==
    [MonthlyQuotaUSD |-> UserRow(u).monthly_quota_usd,
     DailyLimitUSD |-> UserRow(u).daily_limit_usd,
     DailyRequestLimit |-> UserRow(u).daily_request_limit,
     MonthlyUsedUSD |-> IF usage[u].exists THEN usage[u].total_cost_usd ELSE 0,
     MonthlyRequests |-> IF usage[u].exists THEN usage[u].total_requests ELSE 0,
     DailyUsedUSD |-> IF status[u].exists THEN status[u].daily_cost_usd ELSE 0,
     DailyRequests |-> IF status[u].exists THEN status[u].daily_requests ELSE 0,
     IsBlocked |-> IF status[u].exists THEN status[u].is_blocked ELSE FALSE]

\* Mutant: the limits are tested before the block
Decide_LimitsFirst(quotaInfo) ==
    IF quotaInfo.DailyUsedUSD >= quotaInfo.DailyLimitUSD
    THEN [status |-> 429, message |-> "daily cost limit exceeded"]
    ELSE IF quotaInfo.DailyRequests >= quotaInfo.DailyRequestLimit
    THEN [status |-> 429, message |-> "daily request limit exceeded"]
    ELSE IF quotaInfo.MonthlyUsedUSD >= quotaInfo.MonthlyQuotaUSD
    THEN [status |-> 429, message |-> "monthly quota exceeded"]
    ELSE IF quotaInfo.IsBlocked
    THEN [status |-> 403, message |-> "user is blocked due to quota limits exceeded"]
    ELSE [status |-> 200, message |-> ""]

\* The tests of QuotaMiddleware.Middleware on the view, in their order;
\* status 200 stands for the call of the next handler
Decide(quotaInfo) ==
    IF quotaInfo.IsBlocked
    THEN [status |-> 403, message |-> "user is blocked due to quota limits exceeded"]
    ELSE IF quotaInfo.DailyUsedUSD >= quotaInfo.DailyLimitUSD
    THEN [status |-> 429, message |-> "daily cost limit exceeded"]
    ELSE IF quotaInfo.DailyRequests >= quotaInfo.DailyRequestLimit
    THEN [status |-> 429, message |-> "daily request limit exceeded"]
    ELSE IF quotaInfo.MonthlyUsedUSD >= quotaInfo.MonthlyQuotaUSD
    THEN [status |-> 429, message |-> "monthly quota exceeded"]
    ELSE [status |-> 200, message |-> ""]

\* UpdateQuotaAndCounters, first statement: INSERT .. ON CONFLICT DO UPDATE
\* on quota_usage
UpsertQuotaUsage(row, costUSD) ==
    IF row.exists
    THEN [row EXCEPT !.total_cost_usd = @ + costUSD, !.total_requests = @ + 1]
    ELSE [exists |-> TRUE, total_cost_usd |-> costUSD, total_requests |-> 1]

\* UpdateQuotaAndCounters, second statement: the same on user_blocking_status,
\* run on day d
UpsertBlocking(row, costUSD, d) ==
    IF row.exists
    THEN [row EXCEPT !.daily_cost_usd = @ + costUSD, !.daily_requests = @ + 1,
                     !.last_request_at = Val(d)]
    ELSE [NoBlocking EXCEPT !.exists = TRUE, !.daily_cost_usd = costUSD,
                            !.daily_requests = 1, !.last_request_at = Val(d)]

\* CheckAndBlockUser on day d: the UPDATE of the user's row
CheckAndBlockUser(row, u, d) ==
    IF /\ row.exists
       /\ row.is_blocked = FALSE
       /\ \/ row.daily_cost_usd >= UserRow(u).daily_limit_usd
          \/ row.daily_requests >= UserRow(u).daily_request_limit
    THEN [row EXCEPT !.is_blocked = TRUE,
                     !.blocked_at = Val(d),
                     !.blocked_reason =
                        IF row.daily_cost_usd >= UserRow(u).daily_limit_usd
                        THEN Val("Daily cost limit exceeded")
                        ELSE IF row.daily_requests >= UserRow(u).daily_request_limit
                        THEN Val("Daily request limit exceeded")
                        ELSE Val("Limit exceeded"),
                     !.requests_at_blocking = Val(row.daily_requests)]
    ELSE row

\* The rows the UPDATE of ResetDailyCounters matches on day d
\* (a NULL last_request_at matches nothing)
ResetMatches(row, d) ==
    /\ row.exists
    /\ \E last \in row.last_request_at : last < d
    /\ row.blocked_by_admin_id = Null

\* Mutant: the admin marker is not looked at
ResetDailyCounters_IgnoresAdmin(status, d) ==
    [u \in Users |->
        IF status[u].exists /\ (\E last \in status[u].last_request_at : last < d)
        THEN [status[u] EXCEPT !.daily_requests = 0, !.daily_cost_usd = 0,
                               !.is_blocked = FALSE, !.blocked_reason = Null,
                               !.blocked_at = Null, !.blocked_until = Null,
                               !.last_reset_at = Val(d)]
        ELSE status[u]]

\* ResetDailyCounters on day d: the table after the UPDATE
ResetDailyCounters(status, d) ==
    [u \in Users |->
        IF ResetMatches(status[u], d)
        THEN [status[u] EXCEPT !.daily_requests = 0, !.daily_cost_usd = 0,
                               !.is_blocked = FALSE, !.blocked_reason = Null,
                               !.blocked_at = Null, !.blocked_until = Null,
                               !.last_reset_at = Val(d)]
        ELSE status[u]]

----------------------------------------------------------------------------
(* The parts of the system a specification leaves out stay as they start *)

StreamIdle ==
    /\ streamState = "idle"
    /\ events = <<>>
    /\ sse = <<>>
    /\ messageStartReceived = FALSE
    /\ messageStartSent = FALSE
    /\ inputTokens = 0
    /\ outputTokens = 0
    /\ cacheReadTokens = 0
    /\ cacheWriteTokens = 0

HarnessIdle ==
    /\ received = <<>>
    /\ emitted = <<>>
    /\ lastOp = "none"
    /\ lastOut = <<>>
    /\ lastFull = <<>>
    /\ cuts = {}
    /\ flushes = 0

\* No request has arrived and the limiter's maps are empty
Slots == {1, 2}

NoCredential == Credential("none", "", "", NeverExpires, "", "", "")

NoRequest == [pc |-> "idle", ip |-> "", cred |-> NoCredential, tokenHash |-> ""]

NoResponse ==
    [ip |-> "", cred |-> NoCredential, status |-> 0, retryAfter |-> 0,
     examined |-> FALSE, nextCalled |-> FALSE, user |-> {}]

\* The stage and its limiter as constructed (NewAuthMiddleware)
NewAuthMiddleware ==
    /\ now = 1
    /\ ipAttempts = [ip \in IPs |-> Absent]
    /\ tokenAttempts = [h \in TokenHashes |-> Absent]
    /\ req = [s \in Slots |-> NoRequest]
    /\ answered = NoResponse
    /\ fails = [ip \in IPs |-> <<>>]
    /\ attemptsAfter = [ip \in IPs |-> 0]

AuthIdle ==
    /\ NewAuthMiddleware
    /\ offered = {}
    /\ budget = 0

\* No request has reached the quota stage; bob was blocked by an administrator
NoJob == [pc |-> "idle", user |-> "", cost |-> 0, txDay |-> 0, txQuota |-> NoUsage]

NoDecision == [user |-> "", status |-> 0, message |-> "", nextCalled |-> FALSE,
               viewAttached |-> FALSE]

NewDatabase ==
    /\ day = 1
    /\ quotaUsage = [u \in Users |-> NoUsage]
    /\ blocking = [u \in Users |-> IF u = "bob" THEN AdminBlocked ELSE NoBlocking]
    /\ rowLock = [u \in Users |-> 0]
    /\ job = EmptyBag
    /\ quotaAnswered = NoDecision
    /\ resetDue = FALSE
    /\ resetRan = 1
    /\ debited = [u \in Users |-> [cost |-> 0, requests |-> 0]]
    /\ committedToday = [u \in Users |-> [cost |-> 0, requests |-> 0]]
    /\ admittedToday = [u \in Users |-> 0]

QuotaIdle ==
    /\ NewDatabase
    /\ incoming = 0

\* The worker's configuration, scaled down (DefaultConfig: 1000 and 50)
BufferSize == 2
BatchSize == 2

NoRecord == [row |-> 0, err |-> ""]

\* The worker as constructed and started (NewMetricsWorker, Start)
NewMetricsWorker ==
    /\ metricsChan = <<>>
    /\ batch = <<>>
    /\ stopped = FALSE
    /\ stopChan = "open"
    /\ workerPc = "select"
    /\ stopPc = "none"
    /\ nextRow = 1
    /\ lastRecord = NoRecord
    /\ accepted = {}
    /\ inserts = <<>>

WorkerIdle == NewMetricsWorker

\* No cost has been asked for
NoTokens == [input |-> 0, output |-> 0, cacheRead |-> 0, cacheWrite |-> 0]

NoCost == [cost |-> 0, err |-> FALSE]

CostIdle ==
    /\ costModel = ""
    /\ tokens = NoTokens
    /\ costPc = "idle"
    /\ costResult = [withCache |-> NoCost, plain |-> NoCost]

\* No request has reached HandleProxy
NoUser == {}

NoCall ==
    [pc |-> "idle", user |-> NoUser, isStream |-> FALSE, configured |-> FALSE,
     ctxDone |-> FALSE, backendCalls |-> 0, streamErr |-> FALSE, captured |-> NoTokens]

NoProvider == [open |-> FALSE, left |-> 0, usage |-> NoTokens, canceled |-> FALSE]

NoAnswer == [status |-> 0, events |-> 0]

NoPost == [pc |-> "none", ctx |-> "", cost |-> 0, steps |-> <<>>]

NoCounters ==
    [daily_cost_usd |-> 0, daily_requests |-> 0, total_cost_usd |-> 0, total_requests |-> 0]

ProxyIdle ==
    /\ hp = NoCall
    /\ provider = NoProvider
    /\ response = NoAnswer
    /\ post = NoPost
    /\ usageRows = <<>>
    /\ counters = NoCounters
    /\ callsLeft = 0

\* Nothing is being translated
TranslateIdle ==
    /\ blocks = <<>>
    /\ blockKind = ""
    /\ translated = <<>>

\* Stop has not been called and no channel has been closed
NoCloses == [stopChan |-> 0, metricsChan |-> 0]

StopIdle ==
    /\ closes = NoCloses
    /\ stopCalls = 0

\* No logger has been made
NoLogger ==
    [MinLevel |-> 0, Async |-> FALSE, closed |-> FALSE, bufferClosed |-> FALSE,
     workerPc |-> "none", closePc |-> "none", panicked |-> FALSE]

LoggerIdle ==
    /\ logger = NoLogger
    /\ logBuffer = <<>>
    /\ logOutput = <<>>
    /\ logCalls = <<>>

LaterIdle == CostIdle /\ ProxyIdle /\ TranslateIdle /\ StopIdle /\ LoggerIdle

----------------------------------------------------------------------------
(* The buffer fed with arbitrary chunks *)

\* The README's example of a tag cut by the chunking
ReadmeChunk1 == <<"C","r","e","a","t","e"," ","f","i","l","e"," ",
                  "<","w","r","i","t","e","_","f","i">>
ReadmeChunk2 == <<"l","e",">","c","o","n","t","e","n","t","s">>

BufferSizes == (1..DefaultMaxBufferSize) \cup {ReadmeMaxBufferSize}

GeneratedChunks == SeqsUpTo(Alphabet, MaxChunk)

\* A chunk the harness may feed next: a text is fed chunk by chunk and then
\* flushed
ChunkAllowed(chunk) ==
    \/ /\ chunk \in GeneratedChunks
       /\ Len(received) + Len(chunk) <= MaxText
    \/ /\ xmlBuffer.maxBufferSize = ReadmeMaxBufferSize
       /\ \/ received = <<>> /\ chunk = ReadmeChunk1
          \/ received = ReadmeChunk1 /\ chunk = ReadmeChunk2

BufInit ==
    /\ xmlBuffer \in {NewXMLTagBuffer(n) : n \in BufferSizes}
    /\ received = <<>>
    /\ emitted = <<>>
    /\ lastOp = "none"
    /\ lastOut = <<>>
    /\ lastFull = <<>>
    /\ cuts = {}
    /\ flushes = 0
    /\ StreamIdle
    /\ AuthIdle
    /\ QuotaIdle
    /\ WorkerIdle
    /\ LaterIdle

CallProcessChunk ==
    \E chunk \in GeneratedChunks \cup {ReadmeChunk1, ReadmeChunk2} :
        /\ flushes = 0
        /\ ChunkAllowed(chunk)
        /\ LET r == ProcessChunk(xmlBuffer, chunk)
           IN /\ xmlBuffer' = r.b
              /\ received' = received \o chunk
              /\ emitted' = emitted \o r.out
              /\ lastOp' = "chunk"
              /\ lastOut' = r.out
              /\ lastFull' = xmlBuffer.buffer \o chunk
              /\ cuts' = cuts \cup {Len(emitted \o r.out)}
              /\ UNCHANGED <<flushes, nonBufVars>>

CallFlush ==
    LET r == Flush(xmlBuffer)
    IN /\ flushes < MaxFlushes
       /\ xmlBuffer' = r.b
       /\ emitted' = emitted \o r.out
       /\ lastOp' = "flush"
       /\ lastOut' = r.out
       /\ flushes' = flushes + 1
       /\ UNCHANGED <<received, lastFull, cuts, nonBufVars>>

BufNext == CallProcessChunk \/ CallFlush

SpecBuffer == BufInit /\ [][BufNext]_vars

----------------------------------------------------------------------------
(* The streaming adapter: handleBedrockStreamConverse *)

\* A provider event (types.ConverseStreamOutput).  A pointer field is a set
\* with at most one element: {} is nil.
ProviderEvent(kind) ==
    [kind |-> kind, delta |-> "", text |-> <<>>, usage |-> {}, stopReason |-> ""]

\* types.TokenUsage: each count is a *int32
TokenUsage(in, out, cacheRead, cacheWrite) ==
    [InputTokens |-> in, OutputTokens |-> out,
     CacheReadInputTokens |-> cacheRead, CacheWriteInputTokens |-> cacheWrite]

\* The usages a provider reports here: the one of the spec's scenario, and one
\* that leaves the input count out
Usages == {TokenUsage({42}, {1}, {}, {}), TokenUsage({}, {7}, {5}, {3})}

\* The texts of the provider's text deltas
DeltaTexts == {<<"h", "i">>, <<"<", "a">>}

MessageStartEvent == ProviderEvent("MessageStart")
ContentBlockStartEvent == ProviderEvent("ContentBlockStart")
ContentBlockStopEvent == ProviderEvent("ContentBlockStop")
TextDeltaEvent(text) == [ProviderEvent("ContentBlockDelta") EXCEPT !.delta = "text", !.text = text]
MetadataEvent(usage) == [ProviderEvent("Metadata") EXCEPT !.usage = usage]
MessageStopEvent(reason) == [ProviderEvent("MessageStop") EXCEPT !.stopReason = reason]

\* An SSE event written to the client; `at` is the number of the provider
\* event whose handling wrote it
SseEvent(type, at) ==
    [type |-> type, at |-> at, text |-> <<>>, stop_reason |-> "",
     input_tokens |-> 0, output_tokens |-> 0,
     cache_creation_input_tokens |-> 0, cache_read_input_tokens |-> 0]

SseWithUsage(type, at, in, out, cacheWrite, cacheRead) ==
    [SseEvent(type, at) EXCEPT !.input_tokens = in, !.output_tokens = out,
                               !.cache_creation_input_tokens = cacheWrite,
                               !.cache_read_input_tokens = cacheRead]

SseTextDelta(at, text) == [SseEvent("content_block_delta", at) EXCEPT !.text = text]

\* *p when p is not nil, else the value kept
Deref(p, kept) == IF p = {} THEN kept ELSE CHOOSE v \in p : TRUE

StreamInit ==
    /\ xmlBuffer = NewXMLTagBuffer(DefaultMaxBufferSize)
    /\ HarnessIdle
    /\ AuthIdle
    /\ QuotaIdle
    /\ WorkerIdle
    /\ LaterIdle
    /\ streamState = "streaming"
    /\ events = <<>>
    /\ sse = <<>>
    /\ messageStartReceived = FALSE
    /\ messageStartSent = FALSE
    /\ inputTokens = 0
    /\ outputTokens = 0
    /\ cacheReadTokens = 0
    /\ cacheWriteTokens = 0

\* event, ok := <-stream.Events() with ok
Receive(e) ==
    /\ streamState = "streaming"
    /\ Len(events) < MaxEvents
    /\ events' = Append(events, e)

tokenVars == <<inputTokens, outputTokens, cacheReadTokens, cacheWriteTokens>>

\* Mutant: message_start is written as soon as the provider's MessageStart
\* arrives, with the counts known then
OnMessageStart_EmitsNow ==
    /\ Receive(MessageStartEvent)
    /\ messageStartReceived' = TRUE
    /\ messageStartSent' = TRUE
    /\ sse' = Append(sse, SseWithUsage("message_start", Len(events) + 1, inputTokens,
                                       outputTokens, cacheWriteTokens, cacheReadTokens))
    /\ UNCHANGED <<xmlBuffer, nonStreamVars, streamState, tokenVars>>

\* case *types.ConverseStreamOutputMemberMessageStart
OnMessageStart ==
    /\ Receive(MessageStartEvent)
    /\ messageStartReceived' = TRUE
    /\ UNCHANGED <<xmlBuffer, nonStreamVars, streamState, sse, messageStartSent, tokenVars>>

\* case *types.ConverseStreamOutputMemberContentBlockStart
OnContentBlockStart ==
    /\ Receive(ContentBlockStartEvent)
    /\ sse' = Append(sse, SseEvent("content_block_start", Len(events) + 1))
    /\ UNCHANGED <<xmlBuffer, nonStreamVars, streamState, messageStartReceived,
                   messageStartSent, tokenVars>>

\* case *types.ConverseStreamOutputMemberContentBlockDelta
OnContentBlockDelta ==
    \E e \in {TextDeltaEvent(t) : t \in DeltaTexts} :
        /\ Receive(e)
        /\ LET r == ProcessChunk(xmlBuffer, e.text)
           IN /\ xmlBuffer' = r.b
              /\ sse' = IF Len(r.out) > 0
                        THEN Append(sse, SseTextDelta(Len(events) + 1, r.out))
                        ELSE sse
        /\ UNCHANGED <<nonStreamVars, streamState, messageStartReceived,
                       messageStartSent, tokenVars>>

\* Mutant: content_block_stop is written without looking at the buffer
OnContentBlockStop_NoFlush ==
    /\ Receive(ContentBlockStopEvent)
    /\ sse' = Append(sse, SseEvent("content_block_stop", Len(events) + 1))
    /\ UNCHANGED <<xmlBuffer, nonStreamVars, streamState, messageStartReceived,
                   messageStartSent, tokenVars>>

\* case *types.ConverseStreamOutputMemberContentBlockStop
OnContentBlockStop ==
    /\ Receive(ContentBlockStopEvent)
    /\ LET flushed == HasBufferedContent(xmlBuffer)
           r == Flush(xmlBuffer)
           at == Len(events) + 1
           withRest == IF flushed /\ Len(r.out) > 0
                       THEN Append(sse, SseTextDelta(at, r.out))
                       ELSE sse
       IN /\ xmlBuffer' = IF flushed THEN r.b ELSE xmlBuffer
          /\ sse' = Append(withRest, SseEvent("content_block_stop", at))
    /\ UNCHANGED <<nonStreamVars, streamState, messageStartReceived,
                   messageStartSent, tokenVars>>

\* case *types.ConverseStreamOutputMemberMetadata
OnMetadata ==
    \E e \in {MetadataEvent(u) : u \in {{}} \cup {{x} : x \in Usages}} :
        /\ Receive(e)
        /\ IF e.usage = {}
           THEN UNCHANGED <<sse, messageStartSent, tokenVars>>
           ELSE LET usage == CHOOSE u \in e.usage : TRUE
                    in == Deref(usage.InputTokens, inputTokens)
                    out == Deref(usage.OutputTokens, outputTokens)
                    cacheRead == Deref(usage.CacheReadInputTokens, cacheReadTokens)
                    cacheWrite == Deref(usage.CacheWriteInputTokens, cacheWriteTokens)
                    at == Len(events) + 1
                    withStart == IF messageStartReceived /\ ~messageStartSent
                                 THEN Append(sse, SseWithUsage("message_start", at, in, out,
                                                               cacheWrite, cacheRead))
                                 ELSE sse
                IN /\ inputTokens' = in
                   /\ outputTokens' = out
                   /\ cacheReadTokens' = cacheRead
                   /\ cacheWriteTokens' = cacheWrite
                   /\ messageStartSent' = (messageStartSent \/ messageStartReceived)
                   /\ sse' = Append(withStart, SseWithUsage("ping", at, in, out,
                                                            cacheWrite, cacheRead))
        /\ UNCHANGED <<xmlBuffer, nonStreamVars, streamState, messageStartReceived>>

\* case *types.ConverseStreamOutputMemberMessageStop
OnMessageStop ==
    \E e \in {MessageStopEvent(reason) : reason \in {"", "max_tokens"}} :
        /\ Receive(e)
        /\ LET stopReason == IF e.stopReason # "" THEN e.stopReason ELSE "end_turn"
               at == Len(events) + 1
               delta == [SseEvent("message_delta", at) EXCEPT !.stop_reason = stopReason,
                                                              !.output_tokens = outputTokens]
           IN sse' = sse \o <<delta, SseEvent("message_stop", at)>>
        /\ UNCHANGED <<xmlBuffer, nonStreamVars, streamState, messageStartReceived,
                       messageStartSent, tokenVars>>

\* event, ok := <-stream.Events() with !ok: the loop ends and the adapter returns
StreamClosed ==
    /\ streamState = "streaming"
    /\ streamState' = "returned"
    /\ UNCHANGED <<xmlBuffer, nonStreamVars, events, sse, messageStartReceived,
                   messageStartSent, tokenVars>>

StreamNext ==
    \/ OnMessageStart
    \/ OnContentBlockStart
    \/ OnContentBlockDelta
    \/ OnContentBlockStop
    \/ OnMetadata
    \/ OnMessageStop
    \/ StreamClosed

SpecStream == StreamInit /\ [][StreamNext]_vars

----------------------------------------------------------------------------
(* The authentication stage: AuthMiddleware.Middleware, served by several
   goroutines at once.  A step runs up to the next call that takes the
   limiter's lock; the clock may advance between the steps. *)

\* Clients presenting any of the credentials
AuthInit ==
    /\ xmlBuffer = NewXMLTagBuffer(DefaultMaxBufferSize)
    /\ HarnessIdle
    /\ StreamIdle
    /\ QuotaIdle
    /\ WorkerIdle
    /\ LaterIdle
    /\ NewAuthMiddleware
    /\ offered = Credentials
    /\ budget = MaxRequests

\* Clients that insist: a valid token, two that are rejected, and no token
GateCredentials == {c \in Credentials : c.token \in {"good", "expiring", "revoked", ""}}

GateInit ==
    /\ xmlBuffer = NewXMLTagBuffer(DefaultMaxBufferSize)
    /\ HarnessIdle
    /\ StreamIdle
    /\ QuotaIdle
    /\ WorkerIdle
    /\ LaterIdle
    /\ NewAuthMiddleware
    /\ offered = GateCredentials
    /\ budget = MaxAttempts

\* respondError: the answer to request r; examined tells whether the
\* credential had been validated
respondError(r, statusCode, retryAfter, examined) ==
    [ip |-> r.ip, cred |-> r.cred, status |-> statusCode, retryAfter |-> retryAfter,
     examined |-> examined, nextCalled |-> FALSE, user |-> {}]

\* next.ServeHTTP with the caller's identity in the request's context
ServeNext(r, userID) ==
    [ip |-> r.ip, cred |-> r.cred, status |-> 200, retryAfter |-> 0,
     examined |-> TRUE, nextCalled |-> TRUE, user |-> {userID}]

\* The last maxAttemptsPerIP failures of a source, oldest first
Remember(times, t) ==
    LET all == Append(times, t)
    IN IF Len(all) > maxAttemptsPerIP THEN Tail(all) ELSE all

\* A request arrives at the first free goroutine: CheckIP, then the token is
\* taken from the headers
Middleware_CheckIP(s, ip, c) ==
    /\ req[s].pc = "idle"
    /\ \A other \in Slots : other < s => req[other].pc # "idle"
    /\ c \in offered
    /\ budget > 0
    /\ budget' = budget - 1
    /\ LET checked == CheckIP(ipAttempts, ip, now)
           r == [NoRequest EXCEPT !.ip = ip, !.cred = c]
           extracted == ExtractToken(c)
       IN /\ ipAttempts' = checked.attempts
          /\ IF ~checked.allowed
             THEN /\ answered' = respondError(r, 429, checked.retryAfter, FALSE)
                  /\ req' = req
             ELSE /\ answered' = answered
                  /\ req' = [req EXCEPT ![s] =
                        IF ~extracted.ok THEN [r EXCEPT !.pc = "recordFailure"]
                        ELSE [r EXCEPT !.pc = "checkToken",
                                       !.tokenHash = HashToken(extracted.tokenString)]]
    /\ attemptsAfter' = [attemptsAfter EXCEPT ![ip] = 1]
    /\ UNCHANGED <<now, tokenAttempts, offered, fails, nonAuthVars>>

\* No token in the headers: RecordFailedAttempt for the source alone, then 401
Middleware_NoToken(s) ==
    /\ req[s].pc = "recordFailure"
    /\ LET recorded == RecordFailedAttempt(ipAttempts, tokenAttempts, req[s].ip, "", now)
       IN /\ ipAttempts' = recorded.ip
          /\ tokenAttempts' = recorded.token
    /\ answered' = respondError(req[s], 401, 0, FALSE)
    /\ req' = [req EXCEPT ![s] = NoRequest]
    /\ fails' = [fails EXCEPT ![req[s].ip] = Remember(@, now)]
    /\ attemptsAfter' = [attemptsAfter EXCEPT ![req[s].ip] = 0]
    /\ UNCHANGED <<now, offered, budget, nonAuthVars>>

\* CheckToken on the token's hash
Middleware_CheckToken(s) ==
    /\ req[s].pc = "checkToken"
    /\ LET checked == CheckToken(tokenAttempts, req[s].tokenHash, now)
       IN IF ~checked.allowed
          THEN /\ answered' = respondError(req[s], 429, checked.retryAfter, FALSE)
               /\ req' = [req EXCEPT ![s] = NoRequest]
          ELSE /\ answered' = answered
               /\ req' = [req EXCEPT ![s].pc = "validate"]
    /\ UNCHANGED <<now, ipAttempts, tokenAttempts, offered, budget, fails, attemptsAfter, nonAuthVars>>

\* The token is validated (its signature and claims, its row in the database,
\* the revocation flag, the owner) and the outcome is recorded in the limiter:
\* 401, or the next handler with the caller's identity
Middleware_Validate(s) ==
    /\ req[s].pc = "validate"
    /\ LET claims == ValidateToken(req[s].cred, SecretKey, now)
           tokenInfo == DbValidateToken(req[s].tokenHash, now)
           ok == /\ claims.ok
                 /\ tokenInfo.ok
                 /\ ~tokenInfo.IsRevoked
                 /\ tokenInfo.UserID = claims.UserID
           recorded == RecordFailedAttempt(ipAttempts, tokenAttempts,
                                           req[s].ip, req[s].tokenHash, now)
       IN IF ok
          THEN /\ ipAttempts' = RecordSuccessfulAttempt(ipAttempts, req[s].ip, now)
               /\ tokenAttempts' = tokenAttempts
               /\ answered' = ServeNext(req[s], claims.UserID)
               /\ fails' = [fails EXCEPT ![req[s].ip] = <<>>]
               /\ attemptsAfter' = attemptsAfter
          ELSE /\ ipAttempts' = recorded.ip
               /\ tokenAttempts' = recorded.token
               /\ answered' = respondError(req[s], 401, 0, TRUE)
               /\ fails' = [fails EXCEPT ![req[s].ip] = Remember(@, now)]
               /\ attemptsAfter' = [attemptsAfter EXCEPT ![req[s].ip] = 0]
    /\ req' = [req EXCEPT ![s] = NoRequest]
    /\ UNCHANGED <<now, offered, budget, nonAuthVars>>

\* The age after which cleanup forgets a record: one hour in the code
cleanupCutoff == 1

\* cleanup: old records that are not blocked are deleted
cleanup ==
    /\ ipAttempts' = [ip \in IPs |->
            IF /\ ipAttempts[ip].exists
               /\ ipAttempts[ip].LastAttempt < now - cleanupCutoff
               /\ now > ipAttempts[ip].BlockedUntil
            THEN Absent ELSE ipAttempts[ip]]
    /\ tokenAttempts' = [h \in TokenHashes |->
            IF /\ tokenAttempts[h].exists
               /\ tokenAttempts[h].FirstAttempt < now - cleanupCutoff
               /\ now > tokenAttempts[h].BlockedUntil
            THEN Absent ELSE tokenAttempts[h]]
    /\ UNCHANGED <<now, req, offered, budget, answered, fails, attemptsAfter, nonAuthVars>>

\* Time passes
Tick ==
    /\ now < MaxTime
    /\ now' = now + 1
    /\ UNCHANGED <<ipAttempts, tokenAttempts, req, offered, budget, answered, fails, attemptsAfter, nonAuthVars>>

AuthNext ==
    \/ \E s \in Slots, ip \in IPs, c \in Credentials : Middleware_CheckIP(s, ip, c)
    \/ \E s \in Slots : Middleware_NoToken(s)
    \/ \E s \in Slots : Middleware_CheckToken(s)
    \/ \E s \in Slots : Middleware_Validate(s)
    \/ cleanup
    \/ Tick

SpecAuth == AuthInit /\ [][AuthNext]_vars

SpecGate == GateInit /\ [][AuthNext]_vars

----------------------------------------------------------------------------
(* The quota stage (QuotaMiddleware.Middleware), the post-stream processing
   of the admitted requests (processMetrics) and the scheduled daily reset.
   A statement or a transaction takes effect in one step, at its commit;
   NOW() and CURRENT_DATE are those of the start of the transaction.
   The requests in progress are a bag of their positions and locals. *)

\* The users that send requests
Callers == {"alice"}

\* What CalculateCost gives for a request
Costs == {1, 3}

\* Requests served at the same time
Concurrent == {1, 2, 3}

QuotaInit ==
    /\ xmlBuffer = NewXMLTagBuffer(DefaultMaxBufferSize)
    /\ HarnessIdle
    /\ StreamIdle
    /\ AuthIdle
    /\ NewDatabase
    /\ incoming = MaxIncoming
    /\ WorkerIdle
    /\ LaterIdle

\* One request more / one request less in progress, a request moving on
Spawn(jobs, j) == jobs (+) SetToBag({j})
Retire(jobs, j) == jobs (-) SetToBag({j})
Move(jobs, j, k) == Spawn(Retire(jobs, j), k)

\* Mutant: the request is debited when it is admitted
Admit_PreDebits(usage, u) == [usage EXCEPT ![u] = UpsertQuotaUsage(@, 1)]

\* What the quota stage does to quota_usage when it admits a request: nothing
Admit(usage, u) == usage

\* A request of an authenticated user reaches the quota stage: the view is
\* read and tested; the request goes on to the next handler with the view in
\* its context, or is answered
Quota_Middleware(u) ==
    /\ BagCardinality(job) \in Concurrent \cup {0}
    /\ BagCardinality(job) + 1 \in Concurrent
    /\ incoming > 0
    /\ incoming' = incoming - 1
    /\ LET quotaInfo == CheckQuota(quotaUsage, blocking, u)
           decision == Decide(quotaInfo)
       IN IF decision.status = 200
          THEN /\ job' = Spawn(job, [NoJob EXCEPT !.pc = "serving", !.user = u])
               /\ quotaAnswered' = [user |-> u, status |-> 200, message |-> "",
                                    nextCalled |-> TRUE, viewAttached |-> TRUE]
               /\ admittedToday' = [admittedToday EXCEPT ![u] = @ + 1]
               /\ quotaUsage' = Admit(quotaUsage, u)
          ELSE /\ job' = job
               /\ quotaAnswered' = [user |-> u, status |-> decision.status,
                                    message |-> decision.message,
                                    nextCalled |-> FALSE, viewAttached |-> FALSE]
               /\ admittedToday' = admittedToday
               /\ quotaUsage' = quotaUsage
    /\ UNCHANGED <<day, blocking, rowLock, resetDue, resetRan, debited,
                   committedToday, nonQuotaVars>>

\* CheckQuota returns an error: 500
Quota_CheckFails(u) ==
    /\ BagCardinality(job) + 1 \in Concurrent
    /\ incoming > 0
    /\ incoming' = incoming - 1
    /\ quotaAnswered' = [user |-> u, status |-> 500, message |-> "error checking quota",
                         nextCalled |-> FALSE, viewAttached |-> FALSE]
    /\ UNCHANGED <<day, quotaUsage, blocking, rowLock, job, resetDue, resetRan, debited,
                   committedToday, admittedToday, nonQuotaVars>>

\* Mutant: a transaction does not wait for the row
RowLockFree_NoLock(lock, u) == TRUE

\* The user's quota_usage row is not locked by a transaction in progress
RowLockFree(lock, u) == lock[u] = 0

\* The stream of an admitted request has ended with cost c; processMetrics
\* starts UpdateQuotaAndCounters: the upsert of quota_usage waits for the row,
\* locks it and computes the new row
Update_UpsertQuota(j, c) ==
    /\ j.pc = "serving"
    /\ RowLockFree(rowLock, j.user)
    /\ rowLock' = [rowLock EXCEPT ![j.user] = @ + 1]
    /\ job' = Move(job, j, [j EXCEPT !.pc = "inTransaction", !.cost = c, !.txDay = day,
                                  !.txQuota = UpsertQuotaUsage(quotaUsage[j.user], c)])
    /\ UNCHANGED <<day, quotaUsage, blocking, incoming, quotaAnswered, resetDue, resetRan,
                   debited, committedToday, admittedToday, nonQuotaVars>>

\* The upsert of user_blocking_status and the commit: both rows change
Update_Commit(j) ==
    /\ j.pc = "inTransaction"
    /\ quotaUsage' = [quotaUsage EXCEPT ![j.user] = j.txQuota]
    /\ blocking' = [blocking EXCEPT ![j.user] = UpsertBlocking(@, j.cost, j.txDay)]
    /\ rowLock' = [rowLock EXCEPT ![j.user] = @ - 1]
    /\ debited' = [debited EXCEPT ![j.user] =
            [cost |-> @.cost + j.cost, requests |-> @.requests + 1]]
    /\ committedToday' = [committedToday EXCEPT ![j.user] =
            [cost |-> @.cost + j.cost, requests |-> @.requests + 1]]
    /\ job' = Move(job, j, [NoJob EXCEPT !.pc = "blockCheck", !.user = j.user])
    /\ UNCHANGED <<day, incoming, quotaAnswered, resetDue, resetRan, admittedToday,
                   nonQuotaVars>>

\* A statement or the commit fails: the transaction is rolled back, the error
\* is logged and processMetrics goes on
Update_Fails(j) ==
    /\ j.pc \in {"serving", "inTransaction"}
    /\ rowLock' = [rowLock EXCEPT ![j.user] = IF j.pc = "inTransaction" THEN @ - 1 ELSE @]
    /\ job' = Move(job, j, [NoJob EXCEPT !.pc = "blockCheck", !.user = j.user])
    /\ UNCHANGED <<day, quotaUsage, blocking, incoming, quotaAnswered, resetDue, resetRan,
                   debited, committedToday, admittedToday, nonQuotaVars>>

\* CheckAndBlockUser, the last call of processMetrics
Block_Check(j) ==
    /\ j.pc = "blockCheck"
    /\ blocking' = [blocking EXCEPT ![j.user] = CheckAndBlockUser(@, j.user, day)]
    /\ job' = Retire(job, j)
    /\ UNCHANGED <<day, quotaUsage, rowLock, incoming, quotaAnswered, resetDue, resetRan,
                   debited, committedToday, admittedToday, nonQuotaVars>>

\* CheckAndBlockUser returns an error, which is logged
Block_CheckFails(j) ==
    /\ j.pc = "blockCheck"
    /\ job' = Retire(job, j)
    /\ UNCHANGED <<day, quotaUsage, blocking, rowLock, incoming, quotaAnswered, resetDue,
                   resetRan, debited, committedToday, admittedToday, nonQuotaVars>>

\* Midnight UTC: a new day starts and the scheduler's timer fires
Midnight ==
    /\ day < MaxDay
    /\ ~resetDue
    /\ day' = day + 1
    /\ resetDue' = TRUE
    /\ committedToday' = [u \in Users |-> [cost |-> 0, requests |-> 0]]
    /\ admittedToday' = [u \in Users |-> 0]
    /\ UNCHANGED <<quotaUsage, blocking, rowLock, job, incoming, quotaAnswered, resetRan,
                   debited, nonQuotaVars>>

\* RunDailyReset: the transaction of ResetDailyCounters commits
Reset_Run ==
    /\ resetDue
    /\ blocking' = ResetDailyCounters(blocking, day)
    /\ resetDue' = FALSE
    /\ resetRan' = day
    /\ UNCHANGED <<day, quotaUsage, rowLock, job, incoming, quotaAnswered, debited,
                   committedToday, admittedToday, nonQuotaVars>>

\* A step of ResetDailyCounters fails: rollback, the scheduler logs the error
\* and waits for the next midnight
Reset_Fails ==
    /\ resetDue
    /\ resetDue' = FALSE
    /\ UNCHANGED <<day, quotaUsage, blocking, rowLock, job, incoming, quotaAnswered,
                   resetRan, debited, committedToday, admittedToday, nonQuotaVars>>

QuotaNext ==
    \/ \E u \in Callers : Quota_Middleware(u)
    \/ \E u \in Callers : Quota_CheckFails(u)
    \/ \E j \in BagToSet(job), c \in Costs : Update_UpsertQuota(j, c)
    \/ \E j \in BagToSet(job) : Update_Commit(j)
    \/ \E j \in BagToSet(job) : Update_Fails(j)
    \/ \E j \in BagToSet(job) : Block_Check(j)
    \/ \E j \in BagToSet(job) : Block_CheckFails(j)
    \/ Midnight
    \/ Reset_Run
    \/ Reset_Fails

SpecQuota == QuotaInit /\ [][QuotaNext]_vars

----------------------------------------------------------------------------
(* The metrics worker: RecordMetric called by the post-stream processing of
   any request, the goroutine run() and Stop called at shutdown *)

Rows == 1..MaxRows

\* Mutant: the send waits for room instead of giving up
Offer_Unbounded(queue, row) == [queue |-> Append(queue, row), err |-> "nil"]

\* select { case mw.metricsChan <- metric: .. default: .. } on a channel of
\* BufferSize places
Offer(queue, row) ==
    IF Len(queue) < BufferSize
    THEN [queue |-> Append(queue, row), err |-> "nil"]
    ELSE [queue |-> queue, err |-> "metrics channel is full, metric dropped"]

\* The number of the next flush
NextFlush(log) == IF log = <<>> THEN 1 ELSE log[Len(log)].flush + 1

\* Mutant: the loop of flushBatch ends at the first error
RECURSIVE flushBatch_StopsAtError(_, _, _, _)
flushBatch_StopsAtError(log, rows, oks, n) ==
    IF rows = <<>> THEN log
    ELSE LET call == [row |-> Head(rows), flush |-> n, ok |-> Head(oks)]
         IN IF Head(oks)
            THEN flushBatch_StopsAtError(Append(log, call), Tail(rows), Tail(oks), n)
            ELSE Append(log, call)

\* flushBatch: one InsertMetric call per row of the batch, in order, whatever
\* the calls before returned; oks are the outcomes of the calls
RECURSIVE flushBatch(_, _, _, _)
flushBatch(log, rows, oks, n) ==
    IF rows = <<>> THEN log
    ELSE flushBatch(Append(log, [row |-> Head(rows), flush |-> n, ok |-> Head(oks)]),
                    Tail(rows), Tail(oks), n)

\* The outcomes the InsertMetric calls of one flush may have
Outcomes(rows) == [1..Len(rows) -> BOOLEAN]

WorkerInit ==
    /\ xmlBuffer = NewXMLTagBuffer(DefaultMaxBufferSize)
    /\ HarnessIdle
    /\ StreamIdle
    /\ AuthIdle
    /\ QuotaIdle
    /\ NewMetricsWorker
    /\ LaterIdle

\* RecordMetric, under the mutex: an error when stopped, else the send that
\* does not wait
RecordMetric ==
    /\ nextRow \in Rows
    /\ nextRow' = nextRow + 1
    /\ IF stopped
       THEN /\ lastRecord' = [row |-> nextRow, err |-> "metrics worker is stopped"]
            /\ UNCHANGED <<metricsChan, accepted>>
       ELSE LET sent == Offer(metricsChan, nextRow)
            IN /\ metricsChan' = sent.queue
               /\ lastRecord' = [row |-> nextRow, err |-> sent.err]
               /\ accepted' = IF sent.err = "nil" THEN accepted \cup {nextRow} ELSE accepted
    /\ UNCHANGED <<batch, stopped, stopChan, workerPc, stopPc, inserts, nonWorkerVars>>

\* run(), case metric := <-mw.metricsChan: append, and flush a full batch
Worker_Receive ==
    /\ workerPc = "select"
    /\ metricsChan # <<>>
    /\ metricsChan' = Tail(metricsChan)
    /\ LET grown == Append(batch, Head(metricsChan))
       IN IF Len(grown) >= BatchSize
          THEN /\ \E oks \in Outcomes(grown) :
                    inserts' = flushBatch(inserts, grown, oks, NextFlush(inserts))
               /\ batch' = <<>>
          ELSE /\ batch' = grown
               /\ inserts' = inserts
    /\ UNCHANGED <<stopped, stopChan, workerPc, stopPc, nextRow, lastRecord, accepted,
                   nonWorkerVars>>

\* run(), case <-ticker.C: flush what the batch holds
Worker_Tick ==
    /\ workerPc = "select"
    /\ IF Len(batch) > 0
       THEN /\ \E oks \in Outcomes(batch) :
                 inserts' = flushBatch(inserts, batch, oks, NextFlush(inserts))
            /\ batch' = <<>>
       ELSE UNCHANGED <<batch, inserts>>
    /\ UNCHANGED <<metricsChan, stopped, stopChan, workerPc, stopPc, nextRow, lastRecord,
                   accepted, nonWorkerVars>>

\* run(), case <-mw.stopChan: flush what the batch holds and return; the
\* local batch is gone with the goroutine
Worker_Stop ==
    /\ workerPc = "select"
    /\ stopChan = "closed"
    /\ IF Len(batch) > 0
       THEN \E oks \in Outcomes(batch) :
                 inserts' = flushBatch(inserts, batch, oks, NextFlush(inserts))
       ELSE inserts' = inserts
    /\ batch' = <<>>
    /\ workerPc' = "returned"
    /\ UNCHANGED <<metricsChan, stopped, stopChan, stopPc, nextRow, lastRecord,
                   accepted, nonWorkerVars>>

\* Mutant: Stop does not look at the flag
AlreadyStopped_Never(flag) == FALSE

\* if mw.stopped, under the mutex
AlreadyStopped(flag) == flag

\* Stop, up to wg.Wait: when stopped is set already Stop returns; else stopped
\* is set under the mutex and stopChan is closed
Stop_Call ==
    /\ stopCalls < MaxStops
    /\ stopCalls' = stopCalls + 1
    /\ IF AlreadyStopped(stopped)
       THEN UNCHANGED <<stopped, stopChan, stopPc, closes>>
       ELSE /\ stopped' = TRUE
            /\ stopChan' = "closed"
            /\ closes' = [closes EXCEPT !.stopChan = @ + 1]
            /\ stopPc' = "waiting"
    /\ UNCHANGED <<metricsChan, batch, workerPc, nextRow, lastRecord, accepted, inserts,
                   nonStopVars>>

\* Stop, after wg.Wait: run() has returned; metricsChan is closed with what
\* it holds and Stop returns
Stop_Return ==
    /\ stopPc = "waiting"
    /\ workerPc = "returned"
    /\ stopPc' = "returned"
    /\ closes' = [closes EXCEPT !.metricsChan = @ + 1]
    /\ UNCHANGED <<metricsChan, batch, stopped, stopChan, workerPc, nextRow, lastRecord,
                   accepted, inserts, stopCalls, nonStopVars>>

WorkerNext ==
    \/ RecordMetric
    \/ Worker_Receive
    \/ Worker_Tick
    \/ Worker_Stop
    \/ Stop_Call
    \/ Stop_Return

SpecWorker == WorkerInit /\ [][WorkerNext]_vars

\* The goroutine run() is scheduled and its ticker fires every flushInterval:
\* a channel that holds a row is received from, a batch that holds a row meets
\* a tick
SpecWorkerLive ==
    /\ WorkerInit
    /\ [][WorkerNext]_vars
    /\ WF_vars(Worker_Receive)
    /\ WF_vars(Worker_Tick)

----------------------------------------------------------------------------
(* The pricing functions. Prices are in millionths of a dollar per 1000
   tokens and costs in billionths of a dollar, so that
   (tokens / 1000.0) * price is tokens * price *)

\* PricingTable: entries with cache prices, entries without, and none
PricedModels ==
    {"eu.anthropic.claude-sonnet-4-5-v2:0",
     "anthropic.claude-3-sonnet-20240229-v1:0",
     "anthropic.claude-3-haiku-20240307-v1:0"}

PricingTable ==
    [m \in PricedModels |->
        CASE m = "eu.anthropic.claude-sonnet-4-5-v2:0" ->
                [InputPer1KTokens |-> 3000, OutputPer1KTokens |-> 15000,
                 CacheWritePer1KTokens |-> 3750, CacheReadPer1KTokens |-> 300]
          [] m = "anthropic.claude-3-sonnet-20240229-v1:0" ->
                [InputPer1KTokens |-> 3000, OutputPer1KTokens |-> 15000,
                 CacheWritePer1KTokens |-> 0, CacheReadPer1KTokens |-> 0]
          [] m = "anthropic.claude-3-haiku-20240307-v1:0" ->
                [InputPer1KTokens |-> 250, OutputPer1KTokens |-> 1250,
                 CacheWritePer1KTokens |-> 0, CacheReadPer1KTokens |-> 0]]

\* The model identifiers a request may carry
ModelIDs == PricedModels \cup {"unknown"}

TokenCounts == {100 * k : k \in 0..MaxHundreds}

\* CalculateCost: input and output tokens at their prices
CalculateCost(modelID, nInput, nOutput) ==
    IF modelID \notin DOMAIN PricingTable
    THEN [cost |-> 0, err |-> TRUE]
    ELSE LET pricing == PricingTable[modelID]
             inputCost == nInput * pricing.InputPer1KTokens
             outputCost == nOutput * pricing.OutputPer1KTokens
         IN [cost |-> inputCost + outputCost, err |-> FALSE]

\* Mutant: a cache read without a price of its own is charged the input price
CalculateCostWithCache_ReadAtInputPrice(modelID, nInput, nOutput, nCacheRead, nCacheWrite) ==
    IF modelID \notin DOMAIN PricingTable
    THEN [cost |-> 0, err |-> TRUE]
    ELSE LET pricing == PricingTable[modelID]
             normalInputTokens ==
                IF nInput - nCacheRead - nCacheWrite < 0 THEN 0
                ELSE nInput - nCacheRead - nCacheWrite
             cacheReadCost ==
                IF pricing.CacheReadPer1KTokens > 0
                THEN nCacheRead * pricing.CacheReadPer1KTokens
                ELSE nCacheRead * pricing.InputPer1KTokens
             cacheWriteCost ==
                IF pricing.CacheWritePer1KTokens > 0
                THEN nCacheWrite * pricing.CacheWritePer1KTokens
                ELSE nCacheWrite * pricing.InputPer1KTokens
         IN [cost |-> normalInputTokens * pricing.InputPer1KTokens
                      + nOutput * pricing.OutputPer1KTokens
                      + cacheReadCost + cacheWriteCost,
             err |-> FALSE]

\* Mutant: the tokens are divided by 1000 as integers
CalculateCostWithCache_WholeThousands(modelID, nInput, nOutput, nCacheRead, nCacheWrite) ==
    IF modelID \notin DOMAIN PricingTable
    THEN [cost |-> 0, err |-> TRUE]
    ELSE LET pricing == PricingTable[modelID]
             normalInputTokens ==
                IF nInput - nCacheRead - nCacheWrite < 0 THEN 0
                ELSE nInput - nCacheRead - nCacheWrite
             cacheReadCost ==
                IF pricing.CacheReadPer1KTokens > 0
                THEN (nCacheRead \div 1000) * 1000 * pricing.CacheReadPer1KTokens
                ELSE ((nCacheRead \div 1000) * 1000 * pricing.InputPer1KTokens) \div 10
             cacheWriteCost ==
                IF pricing.CacheWritePer1KTokens > 0
                THEN (nCacheWrite \div 1000) * 1000 * pricing.CacheWritePer1KTokens
                ELSE (nCacheWrite \div 1000) * 1000 * pricing.InputPer1KTokens
         IN [cost |-> (normalInputTokens \div 1000) * 1000 * pricing.InputPer1KTokens
                      + (nOutput \div 1000) * 1000 * pricing.OutputPer1KTokens
                      + cacheReadCost + cacheWriteCost,
             err |-> FALSE]

\* CalculateCostWithCache
CalculateCostWithCache(modelID, nInput, nOutput, nCacheRead, nCacheWrite) ==
    IF modelID \notin DOMAIN PricingTable
    THEN [cost |-> 0, err |-> TRUE]
    ELSE LET pricing == PricingTable[modelID]
             normalInputTokens ==
                IF nInput - nCacheRead - nCacheWrite < 0 THEN 0
                ELSE nInput - nCacheRead - nCacheWrite
             normalInputCost == normalInputTokens * pricing.InputPer1KTokens
             outputCost == nOutput * pricing.OutputPer1KTokens
             cacheReadCost ==
                IF pricing.CacheReadPer1KTokens > 0
                THEN nCacheRead * pricing.CacheReadPer1KTokens
                ELSE (nCacheRead * pricing.InputPer1KTokens) \div 10
             cacheWriteCost ==
                IF pricing.CacheWritePer1KTokens > 0
                THEN nCacheWrite * pricing.CacheWritePer1KTokens
                ELSE nCacheWrite * pricing.InputPer1KTokens
         IN [cost |-> normalInputCost + outputCost + cacheReadCost + cacheWriteCost,
             err |-> FALSE]

\* Both functions on the same counts
Priced(modelID, t) ==
    [withCache |-> CalculateCostWithCache(modelID, t.input, t.output, t.cacheRead,
                                          t.cacheWrite),
     plain |-> CalculateCost(modelID, t.input, t.output)]

CostInit ==
    /\ xmlBuffer = NewXMLTagBuffer(DefaultMaxBufferSize)
    /\ HarnessIdle
    /\ StreamIdle
    /\ AuthIdle
    /\ QuotaIdle
    /\ WorkerIdle
    /\ costModel \in ModelIDs
    /\ tokens \in [input : TokenCounts, output : TokenCounts,
                   cacheRead : TokenCounts, cacheWrite : TokenCounts]
    /\ costPc = "input"
    /\ costResult = [withCache |-> NoCost, plain |-> NoCost]
    /\ ProxyIdle
    /\ TranslateIdle
    /\ StopIdle
    /\ LoggerIdle

\* A caller asks for the cost of the counts
Cost_Calculate ==
    /\ costPc = "input"
    /\ costResult' = Priced(costModel, tokens)
    /\ costPc' = "done"
    /\ UNCHANGED <<costModel, tokens, nonCostVars>>

\* A caller asks again with a hundred tokens more in one of the counts
Cost_AddTokens(which) ==
    /\ costPc = "done"
    /\ tokens[which] + 100 \in TokenCounts
    /\ tokens' = [tokens EXCEPT ![which] = @ + 100]
    /\ costResult' = Priced(costModel, tokens')
    /\ UNCHANGED <<costModel, costPc, nonCostVars>>

CostNext ==
    \/ Cost_Calculate
    \/ \E which \in DOMAIN NoTokens : Cost_AddTokens(which)

SpecCost == CostInit /\ [][CostNext]_vars

----------------------------------------------------------------------------
(* The orchestrator: HandleProxy on one request at a time, the provider it
   calls and the post-processing goroutine it leaves behind. The translation
   of the stream is the streaming adapter's; here an event read is an SSE
   event written. *)

\* An inference profile without an entry in the pricing table
UnlistedProfile == "arn:aws:bedrock:eu-west-1:000000000000:application-inference-profile/unlisted"

\* The callers HandleProxy may find in the context: none, one without a
\* profile, one with a priced profile, one with an unlisted profile
UserContexts ==
    {[UserID |-> "alice", DefaultInferenceProfile |-> profile] :
        profile \in {"", "eu.anthropic.claude-sonnet-4-5-v2:0", UnlistedProfile}}

CallerOptions == {NoUser} \cup {{u} : u \in UserContexts}

\* The usage a provider stream reports in its metadata event
ProviderUsages ==
    {[input |-> 1000, output |-> 500, cacheRead |-> 800, cacheWrite |-> 100],
     [input |-> 100, output |-> 100, cacheRead |-> 0, cacheWrite |-> 0]}

\* The statuses a provider answers a call that is not streamed
ProviderStatuses == {200, 429}

ProxyInit ==
    /\ xmlBuffer = NewXMLTagBuffer(DefaultMaxBufferSize)
    /\ HarnessIdle
    /\ StreamIdle
    /\ AuthIdle
    /\ QuotaIdle
    /\ WorkerIdle
    /\ CostIdle
    /\ hp = NoCall
    /\ provider = NoProvider
    /\ response = NoAnswer
    /\ post = NoPost
    /\ usageRows = <<>>
    /\ counters = NoCounters
    /\ callsLeft = MaxCalls
    /\ TranslateIdle
    /\ StopIdle
    /\ LoggerIdle

\* Mutant: any caller passes
HasProfile_AnyCaller(user) == user # NoUser

\* user != nil && user.DefaultInferenceProfile != ""
HasProfile(user) == \E u \in user : u.DefaultInferenceProfile # ""

\* modelID as HandleProxy sets it
ModelOf(user) ==
    IF HasProfile(user) THEN (CHOOSE u \in user : TRUE).DefaultInferenceProfile
    ELSE "unknown"

\* A request reaches HandleProxy: the caller is read from the context and
\* must have an inference profile, else 403
HP_Arrive(user, configured) ==
    /\ hp.pc \in {"idle", "returned"}
    /\ post.pc \in {"none", "done"}
    /\ callsLeft > 0
    /\ callsLeft' = callsLeft - 1
    /\ provider' = NoProvider
    /\ post' = NoPost
    /\ IF HasProfile(user)
       THEN /\ hp' = [NoCall EXCEPT !.pc = "validated", !.user = user,
                                    !.configured = configured]
            /\ response' = NoAnswer
       ELSE /\ hp' = [NoCall EXCEPT !.pc = "returned", !.user = user,
                                    !.configured = configured]
            /\ response' = [status |-> 403, events |-> 0]
    /\ UNCHANGED <<usageRows, counters, nonProxyVars>>

\* SignRequest fails: 502
HP_SignFails ==
    /\ hp.pc = "validated"
    /\ hp' = [hp EXCEPT !.pc = "returned"]
    /\ response' = [response EXCEPT !.status = 502]
    /\ UNCHANGED <<provider, post, usageRows, counters, callsLeft, nonProxyVars>>

\* SignRequest succeeds and tells whether the request asks for a stream; the
\* body of a streamed request is parsed and translated
HP_Sign(isStream) ==
    /\ hp.pc = "validated"
    /\ hp' = [hp EXCEPT !.pc = IF isStream THEN "parsed" ELSE "signed",
                        !.isStream = isStream]
    /\ UNCHANGED <<provider, response, post, usageRows, counters, callsLeft, nonProxyVars>>

\* The body of a streamed request cannot be parsed or translated: 400
HP_ParseFails ==
    /\ hp.pc = "parsed"
    /\ hp' = [hp EXCEPT !.pc = "returned"]
    /\ response' = [response EXCEPT !.status = 400]
    /\ UNCHANGED <<provider, post, usageRows, counters, callsLeft, nonProxyVars>>

\* The call that is not streamed: httpClient.Do, then the provider's answer
\* is copied, or 502
HP_Forward(ok, status) ==
    /\ hp.pc = "signed"
    /\ hp' = [hp EXCEPT !.pc = "returned", !.backendCalls = @ + 1]
    /\ response' = [response EXCEPT !.status = IF ok THEN status ELSE 502]
    /\ UNCHANGED <<provider, post, usageRows, counters, callsLeft, nonProxyVars>>

\* Mutant: post-processing only after a stream without error
StartsPost_OnlyOnSuccess(call) == call.configured /\ call.user # NoUser /\ ~call.streamErr

\* metricsCapture != nil && user != nil, where metricsCapture is made when
\* db, metricsWorker and user are there
StartsPost(call) == call.configured /\ call.user # NoUser

\* The context processMetrics is given: context.Background()
PostContext(call) == "background"

\* HandleProxy after handleBedrockStreamConverse has returned: the error is
\* logged, the goroutine of processMetrics is started, HandleProxy returns
Finish(call) ==
    /\ hp' = [call EXCEPT !.pc = "returned"]
    /\ post' = IF StartsPost(call)
               THEN [NoPost EXCEPT !.pc = "record", !.ctx = PostContext(call)]
               ELSE post

\* handleBedrockStreamConverse starts: the headers are set and flushed, which
\* sends status 200, and ConverseStream is called on context.Background();
\* when it fails the function returns its error
HP_OpenStream(ok, n, usage) ==
    /\ hp.pc = "parsed"
    /\ response' = [response EXCEPT !.status = 200]
    /\ IF ok
       THEN /\ hp' = [hp EXCEPT !.pc = "streaming", !.backendCalls = @ + 1]
            /\ provider' = [open |-> TRUE, left |-> n, usage |-> usage, canceled |-> FALSE]
            /\ post' = post
       ELSE /\ Finish([hp EXCEPT !.backendCalls = @ + 1, !.streamErr = TRUE])
            /\ provider' = provider
    /\ UNCHANGED <<usageRows, counters, callsLeft, nonProxyVars>>

\* The loop reads the next event and writes its SSE event; the last event of
\* a stream is the metadata with the usage, which the capture will find
HP_StreamEvent ==
    /\ hp.pc = "streaming"
    /\ provider.left > 0
    /\ provider' = [provider EXCEPT !.left = @ - 1]
    /\ response' = [response EXCEPT !.events = @ + 1]
    /\ hp' = [hp EXCEPT !.captured = IF provider.left = 1 THEN provider.usage ELSE @]
    /\ UNCHANGED <<post, usageRows, counters, callsLeft, nonProxyVars>>

\* The provider closes the stream, at its end or with an error before it:
\* the loop ends and handleBedrockStreamConverse returns
HP_StreamEnd(failed) ==
    /\ hp.pc = "streaming"
    /\ failed <=> provider.left > 0
    /\ provider' = [provider EXCEPT !.open = FALSE, !.left = 0]
    /\ Finish([hp EXCEPT !.streamErr = failed])
    /\ UNCHANGED <<response, usageRows, counters, callsLeft, nonProxyVars>>

\* The client goes away: the context of the inbound request is canceled
HP_ClientCancel ==
    /\ hp.pc \in {"validated", "parsed", "signed", "streaming"}
    /\ ~hp.ctxDone
    /\ hp' = [hp EXCEPT !.ctxDone = TRUE]
    /\ UNCHANGED <<provider, response, post, usageRows, counters, callsLeft, nonProxyVars>>

\* A call on the context of processMetrics fails when that context is done
ContextDone(ctx) == ctx = "request" /\ hp.ctxDone

\* The cost processMetrics uses: CalculateCost of the captured input and
\* output counts, 0 when it returns an error
MetricCost(modelID, captured) ==
    LET priced == CalculateCost(modelID, captured.input, captured.output)
    IN IF priced.err THEN 0 ELSE priced.cost

\* processMetrics up to RecordMetric: the capture is finalized, the cost is
\* computed and the row is handed to the worker, which takes it or not
Post_Record(taken) ==
    /\ post.pc = "record"
    /\ LET cost == MetricCost(ModelOf(hp.user), hp.captured)
           metric == [ModelID |-> ModelOf(hp.user), CostUSD |-> cost,
                      Tokens |-> hp.captured]
       IN /\ post' = [post EXCEPT !.pc = "debit", !.cost = cost,
                                  !.steps = Append(@, [call |-> "RecordMetric", ok |-> taken])]
          /\ usageRows' = IF taken THEN Append(usageRows, metric) ELSE usageRows
    /\ UNCHANGED <<hp, provider, response, counters, callsLeft, nonProxyVars>>

\* Mutant: a debit of cost 0 is skipped
AddToCounters_SkipsZero(c, cost) ==
    IF cost = 0 THEN c
    ELSE [daily_cost_usd |-> c.daily_cost_usd + cost, daily_requests |-> c.daily_requests + 1,
          total_cost_usd |-> c.total_cost_usd + cost, total_requests |-> c.total_requests + 1]

\* What a committed UpdateQuotaAndCounters adds
AddToCounters(c, cost) ==
    [daily_cost_usd |-> c.daily_cost_usd + cost, daily_requests |-> c.daily_requests + 1,
     total_cost_usd |-> c.total_cost_usd + cost, total_requests |-> c.total_requests + 1]

\* processMetrics: UpdateQuotaAndCounters, whose error is logged
Post_Debit(ok) ==
    /\ post.pc = "debit"
    /\ ContextDone(post.ctx) => ~ok
    /\ post' = [post EXCEPT !.pc = "block",
                            !.steps = Append(@, [call |-> "UpdateQuotaAndCounters", ok |-> ok])]
    /\ counters' = IF ok THEN AddToCounters(counters, post.cost) ELSE counters
    /\ UNCHANGED <<hp, provider, response, usageRows, callsLeft, nonProxyVars>>

\* processMetrics: CheckAndBlockUser, whose error is logged
Post_BlockCheck(ok) ==
    /\ post.pc = "block"
    /\ ContextDone(post.ctx) => ~ok
    /\ post' = [post EXCEPT !.pc = "done",
                            !.steps = Append(@, [call |-> "CheckAndBlockUser", ok |-> ok])]
    /\ UNCHANGED <<hp, provider, response, usageRows, counters, callsLeft, nonProxyVars>>

ProxyNext ==
    \/ \E user \in CallerOptions, configured \in BOOLEAN : HP_Arrive(user, configured)
    \/ HP_SignFails
    \/ \E isStream \in BOOLEAN : HP_Sign(isStream)
    \/ HP_ParseFails
    \/ \E ok \in BOOLEAN, status \in ProviderStatuses : HP_Forward(ok, status)
    \/ \E ok \in BOOLEAN, n \in 1..MaxProviderEvents, usage \in ProviderUsages :
            HP_OpenStream(ok, n, usage)
    \/ HP_StreamEvent
    \/ \E failed \in BOOLEAN : HP_StreamEnd(failed)
    \/ HP_ClientCancel
    \/ \E taken \in BOOLEAN : Post_Record(taken)
    \/ \E ok \in BOOLEAN : Post_Debit(ok)
    \/ \E ok \in BOOLEAN : Post_BlockCheck(ok)

SpecProxy == ProxyInit /\ [][ProxyNext]_vars

----------------------------------------------------------------------------
(* The translation of the blocks of a request: the system array and the
   content array of a message. A block is the JSON object as decoded: its
   type, its text ("" when it has none) and the type of its cache_control
   ("" when it has none). *)

BlockTypes == {"text", "image"}
Texts == {"hello", "world"}
CacheControlTypes == {"", "ephemeral", "persistent"}

AnthropicBlocks ==
    {[type |-> "text", text |-> t, cache_control |-> c] : t \in Texts, c \in CacheControlTypes}
        \cup {[type |-> "image", text |-> "", cache_control |-> c] : c \in CacheControlTypes}

TextBlock(text) == [member |-> "Text", Value |-> text]
CachePointBlock == [member |-> "CachePoint", Value |-> "default"]

\* Mutant: the cache point is put before the text it checkpoints
convertSystemBlocksWithCache_PointFirst(systemBlocks) ==
    LET RECURSIVE Conv(_)
        Conv(i) ==
            IF i > Len(systemBlocks) THEN <<>>
            ELSE (IF systemBlocks[i].cache_control = "ephemeral"
                  THEN <<CachePointBlock, TextBlock(systemBlocks[i].text)>>
                  ELSE <<TextBlock(systemBlocks[i].text)>>) \o Conv(i + 1)
    IN Conv(1)

\* convertSystemBlocksWithCache: every block gives a text block of its text,
\* followed by a cache point when its cache_control is of type ephemeral
convertSystemBlocksWithCache(systemBlocks) ==
    LET RECURSIVE Conv(_)
        Conv(i) ==
            IF i > Len(systemBlocks) THEN <<>>
            ELSE (IF systemBlocks[i].cache_control = "ephemeral"
                  THEN <<TextBlock(systemBlocks[i].text), CachePointBlock>>
                  ELSE <<TextBlock(systemBlocks[i].text)>>) \o Conv(i + 1)
    IN Conv(1)

\* convertAnthropicToBedrockMessages on the content array of one message:
\* a text block gives a text block, followed by a cache point when its
\* cache_control is of type ephemeral; an image block gives nothing
convertContentBlocks(contentArray) ==
    LET RECURSIVE Conv(_)
        Conv(i) ==
            IF i > Len(contentArray) THEN <<>>
            ELSE (IF contentArray[i].type # "text" THEN <<>>
                  ELSE IF contentArray[i].cache_control = "ephemeral"
                  THEN <<TextBlock(contentArray[i].text), CachePointBlock>>
                  ELSE <<TextBlock(contentArray[i].text)>>) \o Conv(i + 1)
    IN Conv(1)

TranslateInit ==
    /\ xmlBuffer = NewXMLTagBuffer(DefaultMaxBufferSize)
    /\ HarnessIdle
    /\ StreamIdle
    /\ AuthIdle
    /\ QuotaIdle
    /\ WorkerIdle
    /\ CostIdle
    /\ ProxyIdle
    /\ StopIdle
    /\ LoggerIdle
    /\ blocks = <<>>
    /\ blockKind = ""
    /\ translated = <<>>

\* The request has one more block
Translate_AddBlock(b) ==
    /\ blockKind = ""
    /\ Len(blocks) < MaxBlocks
    /\ blocks' = Append(blocks, b)
    /\ UNCHANGED <<blockKind, translated, nonTranslateVars>>

\* HandleProxy translates the system array of the request
Translate_System ==
    /\ blockKind = ""
    /\ blockKind' = "system"
    /\ translated' = convertSystemBlocksWithCache(blocks)
    /\ UNCHANGED <<blocks, nonTranslateVars>>

\* HandleProxy translates the content array of a message of the request
Translate_Content ==
    /\ blockKind = ""
    /\ blockKind' = "content"
    /\ translated' = convertContentBlocks(blocks)
    /\ UNCHANGED <<blocks, nonTranslateVars>>

TranslateNext ==
    \/ \E b \in AnthropicBlocks : Translate_AddBlock(b)
    \/ Translate_System
    \/ Translate_Content

SpecTranslate == TranslateInit /\ [][TranslateNext]_vars

----------------------------------------------------------------------------
(* The logger: log called by any goroutine, the goroutine worker() of an
   asynchronous logger, and Close.  An entry is the number of the call that
   made it. *)

\* LogLevel: DEBUG, INFO, WARN, ERROR (Fatal ends the program)
LevelDebug == 0
LevelInfo == 1
LevelWarn == 2
LevelError == 3
LogLevels == {LevelDebug, LevelInfo, LevelWarn, LevelError}

\* config.BufferSize, scaled down (SetDefaults: 1000)
LogBufferSize == 1

\* NewLogger: an asynchronous logger has the channel and the goroutine worker()
NewLogger(minLevel, async) ==
    [MinLevel |-> minLevel, Async |-> async, closed |-> FALSE, bufferClosed |-> FALSE,
     workerPc |-> IF async THEN "range" ELSE "none", closePc |-> "none",
     panicked |-> FALSE]

LoggerInit ==
    /\ xmlBuffer = NewXMLTagBuffer(DefaultMaxBufferSize)
    /\ HarnessIdle
    /\ StreamIdle
    /\ AuthIdle
    /\ QuotaIdle
    /\ WorkerIdle
    /\ CostIdle
    /\ ProxyIdle
    /\ TranslateIdle
    /\ StopIdle
    /\ logger \in {NewLogger(minLevel, async) : minLevel \in LogLevels, async \in BOOLEAN}
    /\ logBuffer = <<>>
    /\ logOutput = <<>>
    /\ logCalls = <<>>

\* writeLog: the entry is serialized and written to the output
writeLog(output, entry, by) == Append(output, [entry |-> entry, by |-> by])

\* Mutant: an entry that finds the buffer full is dropped
Enqueue_DropsWhenFull(queue, output, entry) ==
    IF Len(queue) < LogBufferSize
    THEN [queue |-> Append(queue, entry), output |-> output]
    ELSE [queue |-> queue, output |-> output]

\* select { case l.buffer <- entry: default: l.writeLog(entry) }
Enqueue(queue, output, entry) ==
    IF Len(queue) < LogBufferSize
    THEN [queue |-> Append(queue, entry), output |-> output]
    ELSE [queue |-> queue, output |-> writeLog(output, entry, "caller")]

\* Logger.log: an entry below the minimum level is dropped; else it is sent
\* to the channel, or written at once when the channel is full or the logger
\* is synchronous; a send on the closed channel panics
Log_Call(level) ==
    /\ logger.workerPc \in {"none", "range", "returned"}
    /\ ~logger.panicked
    /\ Len(logCalls) < MaxEntries
    /\ logCalls' = Append(logCalls, [level |-> level, beforeClose |-> logger.closePc = "none"])
    /\ LET entry == Len(logCalls) + 1
       IN IF level < logger.MinLevel
          THEN UNCHANGED <<logger, logBuffer, logOutput>>
          ELSE IF ~logger.Async
          THEN /\ logOutput' = writeLog(logOutput, entry, "caller")
               /\ UNCHANGED <<logger, logBuffer>>
          ELSE IF logger.bufferClosed
          THEN /\ logger' = [logger EXCEPT !.panicked = TRUE]
               /\ UNCHANGED <<logBuffer, logOutput>>
          ELSE LET sent == Enqueue(logBuffer, logOutput, entry)
               IN /\ logBuffer' = sent.queue
                  /\ logOutput' = sent.output
                  /\ logger' = logger
    /\ UNCHANGED nonLoggerVars

\* worker(): for entry := range l.buffer { l.writeLog(entry) }
LogWorker_Write ==
    /\ logger.workerPc = "range"
    /\ logBuffer # <<>>
    /\ logBuffer' = Tail(logBuffer)
    /\ logOutput' = writeLog(logOutput, Head(logBuffer), "worker")
    /\ UNCHANGED <<logger, logCalls, nonLoggerVars>>

\* worker(): the channel is closed and empty, the range ends
LogWorker_Return ==
    /\ logger.workerPc = "range"
    /\ logBuffer = <<>>
    /\ logger.bufferClosed
    /\ logger' = [logger EXCEPT !.workerPc = "returned"]
    /\ UNCHANGED <<logBuffer, logOutput, logCalls, nonLoggerVars>>

\* Close, up to wg.Wait: closed is set and the channel of an asynchronous
\* logger is closed; a synchronous logger's Close returns
Close_Call ==
    /\ logger.closePc = "none"
    /\ ~logger.closed
    /\ logger' = IF logger.Async
                 THEN [logger EXCEPT !.closed = TRUE, !.bufferClosed = TRUE, !.closePc = "waiting"]
                 ELSE [logger EXCEPT !.closed = TRUE, !.closePc = "returned"]
    /\ UNCHANGED <<logBuffer, logOutput, logCalls, nonLoggerVars>>

\* Close, after wg.Wait: worker() has returned
Close_Return ==
    /\ logger.closePc = "waiting"
    /\ logger.workerPc = "returned"
    /\ logger' = [logger EXCEPT !.closePc = "returned"]
    /\ UNCHANGED <<logBuffer, logOutput, logCalls, nonLoggerVars>>

LoggerNext ==
    \/ \E level \in LogLevels : Log_Call(level)
    \/ LogWorker_Write
    \/ LogWorker_Return
    \/ Close_Call
    \/ Close_Return

SpecLogger == LoggerInit /\ [][LoggerNext]_vars

----------------------------------------------------------------------------
(* Properties of the streaming adapter *)

\* The positions in the SSE output of the events of one type
SsePositions(type) == {i \in 1..Len(sse) : sse[i].type = type}

\* The provider event k is a Metadata carrying usage that follows a MessageStart
IsUsageAfterStart(k) ==
    /\ events[k].kind = "Metadata"
    /\ events[k].usage # {}
    /\ \E j \in 1..(k - 1) : events[j].kind = "MessageStart"

UsageAfterStart == {k \in 1..Len(events) : IsUsageAfterStart(k)}

\* The provider has delivered MessageStart and later a usage with an input count
InputCountDelivered ==
    \E k \in UsageAfterStart : (CHOOSE u \in events[k].usage : TRUE).InputTokens # {}

\* C1 as stated: once the provider has delivered MessageStart and a usage with
\* its input token count, exactly one message_start has been emitted, it
\* carries an input token count the provider supplied, and it precedes every
\* content_block_delta of the stream.
C1_StartBeforeDeltas ==
    InputCountDelivered =>
        /\ Cardinality(SsePositions("message_start")) = 1
        /\ \A i \in SsePositions("message_start") :
              /\ \E k \in UsageAfterStart :
                    {sse[i].input_tokens} = (CHOOSE u \in events[k].usage : TRUE).InputTokens
              /\ \A j \in SsePositions("content_block_delta") : i < j

\* The provider sequence and the outbound order of the spec's scenario 3
Scenario3 ==
    <<MessageStartEvent, ContentBlockStartEvent, TextDeltaEvent(<<"h", "i">>),
      MetadataEvent({TokenUsage({42}, {1}, {}, {})}), MessageStopEvent("")>>
Scenario3Outbound ==
    <<"content_block_start", "content_block_delta", "message_start", "ping",
      "message_delta", "message_stop">>

\* A count the usage supplies is the count the SSE event carries
CarriesSupplied(count, carried) == count = {} \/ count = {carried}

----------------------------------------------------------------------------
(* Properties of the tag buffer *)

\* The characters the properties take to start a tag, and to make up a name
TagStartChars == LowerCase \cup UpperCase \cup {"_", "/", "!"}
NameChars == LowerCase \cup UpperCase \cup {"_"}

\* Positions of a '<' in s with no '>' after it in s
UnclosedBrackets(s) ==
    {i \in 1..Len(s) : s[i] = "<" /\ \A j \in (i + 1)..Len(s) : s[j] # ">"}

\* The text X after the '<' at position i of s
After(s, i) == SubSeq(s, i + 1, Len(s))

\* X is long enough, or starts with a character that cannot start a tag
LongOrNotATag(X) ==
    \/ Len(X) >= xmlBuffer.maxBufferSize
    \/ Len(X) > 0 /\ X[1] \notin TagStartChars

\* C3: the text emitted so far followed by the retained buffer is the text
\* received so far; after Flush the buffer is empty and everything received
\* has been emitted; a second Flush returns the empty string.
C3_Conservation ==
    /\ emitted \o xmlBuffer.buffer = received
    /\ lastOp = "flush" => xmlBuffer.buffer = <<>> /\ emitted = received
    /\ flushes >= 2 => lastOut = <<>>

\* C3 witness: a text of full length whose tail was held back by every
\* ProcessChunk call, released by Flush, and flushed a second time
C3_Witness ==
    /\ flushes = 2
    /\ Len(received) = MaxText
    /\ cuts # {}
    /\ \A c \in cuts : c < Len(received)

\* C4 as stated: EVERY unclosed '<X' of a string returned by ProcessChunk has
\* X at least buffer-cap characters long or starting with a non-tag character.
C4_EveryBracketSafe ==
    lastOp = "chunk" =>
        \A i \in UnclosedBrackets(lastOut) : LongOrNotATag(After(lastOut, i))

\* C4 amended: an unclosed '<X' of a string returned by ProcessChunk that is
\* the last '<' of the text the call saw (no later '<' in the returned string,
\* nothing retained in the buffer) has X at least buffer-cap characters long
\* or starting with a non-tag character.
C4_LastBracketSafe ==
    lastOp = "chunk" =>
        \A i \in UnclosedBrackets(lastOut) :
            (/\ \A j \in (i + 1)..Len(lastOut) : lastOut[j] # "<"
             /\ xmlBuffer.buffer = <<>>)
            => LongOrNotATag(After(lastOut, i))

\* C4 witness: ProcessChunk returned a string ending in an unclosed '<X' whose
\* X starts like a tag and is as long as the cap, retaining nothing
C4_Witness ==
    /\ lastOp = "chunk"
    /\ xmlBuffer.buffer = <<>>
    /\ \E i \in UnclosedBrackets(lastOut) :
          /\ \A j \in (i + 1)..Len(lastOut) : lastOut[j] # "<"
          /\ Len(After(lastOut, i)) >= xmlBuffer.maxBufferSize
          /\ After(lastOut, i)[1] \in TagStartChars

\* A tag <name> at positions p .. p+k+1 of s, its name of k >= 1 characters
IsTagAt(s, p, k) ==
    /\ k >= 1
    /\ p >= 1
    /\ p + k + 1 <= Len(s)
    /\ s[p] = "<"
    /\ \A j \in (p + 1)..(p + k) : s[j] \in NameChars
    /\ s[p + k + 1] = ">"

ReadmeEmission1 == <<"C","r","e","a","t","e"," ","f","i","l","e"," ">>
ReadmeEmission2 == <<"<","w","r","i","t","e","_","f","i","l","e",">",
                     "c","o","n","t","e","n","t","s">>

\* C5: no ProcessChunk output ends inside a tag <name> of the received text
\* whose name is shorter than the buffer cap: the whole tag is in one
\* emission.  With cap 100 the README's two chunks give "Create file " and
\* "<write_file>contents".
C5_TagNeverSplit ==
    /\ \A p \in 1..Len(received) : \A k \in 1..Len(received) :
          (IsTagAt(received, p, k) /\ k < xmlBuffer.maxBufferSize)
          => \A c \in cuts : ~(p <= c /\ c <= p + k)
    /\ (lastOp = "chunk" /\ lastFull = ReadmeChunk1) => lastOut = ReadmeEmission1
    /\ (lastOp = "chunk" /\ received = ReadmeChunk1 \o ReadmeChunk2)
          => lastOut = ReadmeEmission2

\* C5 witness: the README's text has been fed in its two chunks, the first
\* call having stopped right before the tag
C5_Witness ==
    /\ xmlBuffer.maxBufferSize = ReadmeMaxBufferSize
    /\ received = ReadmeChunk1 \o ReadmeChunk2
    /\ lastOp = "chunk"
    /\ Len(ReadmeEmission1) \in cuts
    /\ IsTagAt(received, Len(ReadmeEmission1) + 1, 10)

----------------------------------------------------------------------------
(* Properties of the authentication stage *)

\* What the claims say of a credential, read off the credential and the
\* token table
BearsToken(c) == c.header \in {"bearer", "apikey"}

SignatureVerifies(c) == c.signedWith = SecretKey

NotExpiredAt(c, t) == \A e \in c.exp : t < e

StoredRows(c) == TokenRow(HashToken(c.token))

StoredUsableAt(c, t) == \E r \in StoredRows(c) : ~r.is_revoked /\ t < r.expires_at

OwnerIsSubject(c) == \E r \in StoredRows(c) : r.user_id = c.user_id

ExpiredOrRevokedAt(c, t) ==
    /\ BearsToken(c)
    /\ \/ ~NotExpiredAt(c, t)
       \/ \E r \in StoredRows(c) : r.is_revoked \/ ~(t < r.expires_at)

\* The step is the arrival of a request
Arrives == budget' = budget - 1

\* The step ends the handling of a request: answered' is its response
Answers ==
    \/ Arrives /\ req' = req
    \/ \E s \in Slots : req[s].pc # "idle" /\ req'[s].pc = "idle"

\* The source of the request that arrives in the step
ArrivingIP ==
    IF req' = req THEN answered'.ip
    ELSE LET s == CHOOSE x \in Slots : req[x].pc = "idle" /\ req'[x].pc # "idle"
         IN req'[s].ip

\* The limiter's view of a source and of a token hash before the step
SourceLocked(ip) == ipAttempts[ip].exists /\ now < ipAttempts[ip].BlockedUntil

SourceAtLimit(ip) == ipAttempts[ip].exists /\ ipAttempts[ip].Count >= maxAttemptsPerIP

TokenLocked(c) ==
    /\ BearsToken(c)
    /\ tokenAttempts[HashToken(c.token)].exists
    /\ now < tokenAttempts[HashToken(c.token)].BlockedUntil

\* C6: the next handler is invoked only for a credential whose signature
\* verifies, that has not expired, whose hash is in the store as a token that
\* is neither revoked nor expired, and whose stored owner is the subject of
\* the claims; in every other case the next handler is not invoked and no
\* identity is attached to the request.
C6_NextOnlyForValidCredential ==
    [][Answers =>
        /\ answered'.nextCalled =>
              /\ BearsToken(answered'.cred)
              /\ SignatureVerifies(answered'.cred)
              /\ NotExpiredAt(answered'.cred, now)
              /\ StoredUsableAt(answered'.cred, now)
              /\ OwnerIsSubject(answered'.cred)
              /\ answered'.user = {answered'.cred.user_id}
        /\ ~answered'.nextCalled => answered'.user = {}]_vars

\* C6 witness: a token that will expire was admitted, with its owner attached,
\* while it was still valid
C6_Witness ==
    /\ answered.nextCalled
    /\ answered.cred.token = "expiring"
    /\ answered.user = {"alice"}

\* C7 as stated: a request bearing an expired or revoked token is answered
\* 401 in every state of the rate limiter, also when its source or its token
\* hash is locked out.
C7_Always401 ==
    [][Answers /\ ExpiredOrRevokedAt(answered'.cred, now) => answered'.status = 401]_vars

\* C7: a request bearing an expired or revoked token never reaches the next
\* handler; it is answered 401, unless the rate limiter refuses it first (its
\* source is locked out or at its limit, or its token hash is locked out), in
\* which case it is answered 429 and the token is not examined.
C7_401UnlessLimiterRefuses ==
    [][Answers /\ ExpiredOrRevokedAt(answered'.cred, now) =>
        /\ ~answered'.nextCalled
        /\ answered'.user = {}
        /\ \/ answered'.status = 401
           \/ /\ answered'.status = 429
              /\ ~answered'.examined
              /\ answered'.retryAfter > 0
              /\ \/ SourceLocked(answered'.ip)
                 \/ SourceAtLimit(answered'.ip)
                 \/ TokenLocked(answered'.cred)]_vars

\* C7 witness: an expired token answered 401 after it was examined, by a
\* limiter that had already counted a failure of its source
C7_Witness ==
    /\ answered.cred.token = "expiring"
    /\ answered.status = 401
    /\ answered.examined
    /\ ipAttempts[answered.ip].exists
    /\ ipAttempts[answered.ip].Count >= maxAttemptsPerIP

\* The source's last maxAttemptsPerIP failures, with no success since, fall
\* within one window
MaxFailuresInWindow(ip) ==
    /\ Len(fails[ip]) = maxAttemptsPerIP
    /\ fails[ip][Len(fails[ip])] - fails[ip][1] <= windowDuration

\* C8 as stated: after maxAttemptsPerIP failed attempts of a source within one
\* window, its next attempt, made within blockDuration of those failures, is
\* answered 429, also when the window has elapsed by then.
C8_NextAttemptDenied ==
    [][\A ip \in IPs :
        (/\ Arrives
         /\ ArrivingIP = ip
         /\ MaxFailuresInWindow(ip)
         /\ attemptsAfter[ip] = 0
         /\ now - fails[ip][Len(fails[ip])] <= blockDuration)
        => Answers /\ answered'.status = 429]_vars

\* C8: when a source that is not locked out has maxAttemptsPerIP failures
\* counted in its current window (which opened at its first attempt, or at its
\* last success or restart of the count), its next attempt is answered 429 and
\* locks it out for blockDuration only if the window has not elapsed; an
\* attempt made after the window has elapsed restarts the count and goes on to
\* the validation of the credential.
C8_DeniedWithinWindowOnly ==
    [][\A ip \in IPs :
        (/\ Arrives
         /\ ArrivingIP = ip
         /\ SourceAtLimit(ip)
         /\ ~SourceLocked(ip))
        => IF now - ipAttempts[ip].FirstAttempt <= windowDuration
           THEN /\ Answers
                /\ answered'.status = 429
                /\ answered'.retryAfter = blockDuration
                /\ ~answered'.nextCalled
                /\ ipAttempts'[ip].BlockedUntil = now + blockDuration
           ELSE /\ ~Answers
                /\ ipAttempts'[ip].Count = 0
                /\ ipAttempts'[ip].FirstAttempt = now
                /\ ipAttempts'[ip].BlockedUntil = ipAttempts[ip].BlockedUntil]_vars

\* C8 witness: the attempt after maxAttemptsPerIP failures within one window
\* was answered 429 and the source is locked out for blockDuration
C8_Witness ==
    /\ answered.status = 429
    /\ answered.retryAfter = blockDuration
    /\ MaxFailuresInWindow(answered.ip)
    /\ ipAttempts[answered.ip].BlockedUntil = now + blockDuration

\* C9: a request that arrives while its source is locked out is answered 429
\* with a Retry-After that is the rest of the block, at most blockDuration,
\* without its credential being examined or recorded; so a request with a
\* valid token is answered 429 too and does not reach the next handler.
C9_LockedSourceDenied ==
    [][\A ip \in IPs :
        (Arrives /\ ArrivingIP = ip /\ SourceLocked(ip))
        => /\ Answers
           /\ answered'.status = 429
           /\ answered'.retryAfter = ipAttempts[ip].BlockedUntil - now
           /\ answered'.retryAfter \in 1..blockDuration
           /\ ~answered'.examined
           /\ ~answered'.nextCalled
           /\ answered'.user = {}
           /\ tokenAttempts' = tokenAttempts
           /\ ipAttempts' = ipAttempts]_vars

\* C9 witness: a request with the valid token, made during the block, was
\* answered 429 with the rest of the block as Retry-After
C9_Witness ==
    /\ answered.cred.token = "good"
    /\ answered.status = 429
    /\ answered.retryAfter < blockDuration
    /\ ~answered.nextCalled
    /\ now < ipAttempts[answered.ip].BlockedUntil

\* C10 as stated: a correctly signed, unexpired credential whose issuer or
\* audience is not the configured one is rejected with 401 once it is
\* examined, and never reaches the next handler.
C10_IssuerAndAudienceChecked ==
    LET c == answered.cred
    IN (/\ BearsToken(c)
        /\ SignatureVerifies(c)
        /\ NotExpiredAt(c, now)
        /\ (c.iss # Issuer \/ c.aud # Audience))
       => /\ ~answered.nextCalled
          /\ answered.examined => answered.status = 401

----------------------------------------------------------------------------
(* Properties of the quota stage, of the debits and of the daily reset *)

\* A request reaches the quota stage in this step
QuotaArrives == incoming' = incoming - 1

\* ... and the stage could read the caller's quota view
QuotaEvaluates == QuotaArrives /\ quotaAnswered'.status # 500

\* What the tables hold for user u (a missing row counts as zero, not blocked)
IsBlockedNow(u) == blocking[u].exists /\ blocking[u].is_blocked
DailyCostNow(u) == IF blocking[u].exists THEN blocking[u].daily_cost_usd ELSE 0
DailyRequestsNow(u) == IF blocking[u].exists THEN blocking[u].daily_requests ELSE 0
MonthlyCostNow(u) == IF quotaUsage[u].exists THEN quotaUsage[u].total_cost_usd ELSE 0

DailyCostReached(u) == DailyCostNow(u) >= UserRow(u).daily_limit_usd
DailyRequestsReached(u) == DailyRequestsNow(u) >= UserRow(u).daily_request_limit
MonthlyReached(u) == MonthlyCostNow(u) >= UserRow(u).monthly_quota_usd

Refused(a, status, message) ==
    /\ a.status = status
    /\ a.message = message
    /\ ~a.nextCalled

\* C11: the quota stage applies the first rule that matches, in the order
\* blocked (403), daily cost (429), daily requests (429), monthly (429), and
\* calls the next handler with the view attached when none matches; a blocked
\* caller who is also over a limit gets 403
C11_FirstMatchingRule ==
    [][QuotaEvaluates =>
        LET a == quotaAnswered'
            u == a.user
        IN IF IsBlockedNow(u)
           THEN Refused(a, 403, "user is blocked due to quota limits exceeded")
           ELSE IF DailyCostReached(u)
           THEN Refused(a, 429, "daily cost limit exceeded")
           ELSE IF DailyRequestsReached(u)
           THEN Refused(a, 429, "daily request limit exceeded")
           ELSE IF MonthlyReached(u)
           THEN Refused(a, 429, "monthly quota exceeded")
           ELSE a.nextCalled /\ a.viewAttached]_vars

\* A blocked caller who is also over a daily limit has been answered 403
C11_Witness ==
    /\ quotaAnswered.status = 403
    /\ IsBlockedNow(quotaAnswered.user)
    /\ DailyCostReached(quotaAnswered.user) \/ DailyRequestsReached(quotaAnswered.user)

\* Each of the other answers happens
C11_SeenDailyCost == quotaAnswered.message = "daily cost limit exceeded"
C11_SeenDailyRequests == quotaAnswered.message = "daily request limit exceeded"
C11_SeenMonthly == quotaAnswered.message = "monthly quota exceeded"
C11_SeenNext == quotaAnswered.nextCalled

\* The counters of the two tables
Counters == <<quotaUsage, blocking>>

\* A step of the post-stream processing of an admitted request: a request in
\* progress moves on or ends
PostStreamStep == job' # job /\ BagCardinality(job') <= BagCardinality(job)

\* A step of the scheduled reset
ResetStep == resetDue /\ ~resetDue'

\* C12: a request the quota stage refuses never reaches the next handler, the
\* stage changes no counter whatever it answers, and the counters change only
\* in the post-stream processing of an admitted request and in the daily reset
C12_StageOnlyReads ==
    [][/\ QuotaArrives => Counters' = Counters
       /\ QuotaArrives /\ ~quotaAnswered'.nextCalled => job' = job
       /\ Counters' # Counters => PostStreamStep \/ ResetStep]_vars

\* A request has been refused while the caller's counters were not zero
C12_Witness ==
    /\ quotaAnswered.status \in {403, 429}
    /\ ~quotaAnswered.nextCalled
    /\ DailyRequestsNow(quotaAnswered.user) > 0

MonthlyRequestsNow(u) == IF quotaUsage[u].exists THEN quotaUsage[u].total_requests ELSE 0

\* The monthly row of every user holds the sum of the costs and the number
\* of the debits that succeeded
MonthlyIsSumOfDebits ==
    \A u \in Users :
        /\ MonthlyCostNow(u) = debited[u].cost
        /\ MonthlyRequestsNow(u) = debited[u].requests

\* A step that changes a monthly row or raises a daily counter is one debit,
\* of one cost, on the four counters of the user
DebitIsWhole ==
    \A u \in Users :
        \/ quotaUsage'[u] # quotaUsage[u]
        \/ DailyCostNow(u)' > DailyCostNow(u)
        \/ DailyRequestsNow(u)' > DailyRequestsNow(u)
        => \E c \in Costs :
            /\ MonthlyCostNow(u)' = MonthlyCostNow(u) + c
            /\ MonthlyRequestsNow(u)' = MonthlyRequestsNow(u) + 1
            /\ DailyCostNow(u)' = DailyCostNow(u) + c
            /\ DailyRequestsNow(u)' = DailyRequestsNow(u) + 1
            /\ debited'[u] = [cost |-> debited[u].cost + c,
                              requests |-> debited[u].requests + 1]

\* C13: a successful UpdateQuotaAndCounters adds the cost to the monthly total
\* and to the daily cost and one to both request counts, on both rows or on
\* none, and the debits of concurrent requests add up: no update is lost
C13_DebitsAddUp == []MonthlyIsSumOfDebits /\ [][DebitIsWhole]_vars

\* Three debits of the same user have succeeded
C13_Witness ==
    /\ debited["alice"].requests >= 3
    /\ MonthlyCostNow("alice") = debited["alice"].cost
    /\ MonthlyCostNow("alice") >= 5

\* C14: whenever a daily counter of a caller has reached its limit, the
\* caller is blocked by the time the caller's next request is evaluated
C14_BlockedBeforeNextRequest ==
    [][QuotaEvaluates =>
        LET u == quotaAnswered'.user
        IN DailyCostReached(u) \/ DailyRequestsReached(u) => IsBlockedNow(u)]_vars

\* The admitted requests of u whose debit is still to come
RECURSIVE CountUndebited(_, _, _)
CountUndebited(jobs, pending, u) ==
    IF pending = {} THEN 0
    ELSE LET j == CHOOSE x \in pending : TRUE
         IN (IF j.user = u /\ j.pc \in {"serving", "inTransaction"} THEN jobs[j] ELSE 0)
            + CountUndebited(jobs, pending \ {j}, u)

Undebited(u) == CountUndebited(job, BagToSet(job), u)

\* Every request of u admitted today has been debited or is still to be:
\* no debit has failed
NoDebitLost(u) ==
    /\ resetRan = day
    /\ day = 1
    /\ admittedToday[u] = committedToday[u].requests + Undebited(u)

\* C15: the requests of one caller admitted within a day exceed
\* daily_request_limit by at most one, however many requests race
C15_OvershootAtMostOne ==
    \A u \in Callers :
        NoDebitLost(u) => admittedToday[u] <= UserRow(u).daily_request_limit + 1

\* The reset transaction committed in this step / was rolled back in this step
ResetCommits == ResetStep /\ resetRan' # resetRan
ResetRollsBack == ResetStep /\ resetRan' = resetRan

\* The row of u was last used before today and carries no admin marker
StaleAndNotAdmin(u) ==
    /\ blocking[u].exists
    /\ blocking[u].last_request_at # Null
    /\ \A last \in blocking[u].last_request_at : last < day
    /\ blocking[u].blocked_by_admin_id = Null

\* The daily counters and the block of a row are cleared, the rest of the
\* row is as before
Cleared(before, after) ==
    /\ after.daily_requests = 0
    /\ after.daily_cost_usd = 0
    /\ after.is_blocked = FALSE
    /\ after.blocked_reason = Null
    /\ after.blocked_at = Null
    /\ after.blocked_until = Null
    /\ after.last_reset_at # Null
    /\ after.exists = before.exists
    /\ after.blocked_by_admin_id = before.blocked_by_admin_id
    /\ after.requests_at_blocking = before.requests_at_blocking
    /\ after.last_request_at = before.last_request_at

\* C16: ResetDailyCounters clears the daily counters and the block of exactly
\* the rows last used before today that have no admin marker, leaves every
\* other row and the monthly usage as they are, and changes nothing when it
\* fails
C16_ResetExactlyStaleRows ==
    [][/\ ResetStep => quotaUsage' = quotaUsage
       /\ ResetRollsBack => blocking' = blocking
       /\ ResetCommits =>
            \A u \in Users :
                IF StaleAndNotAdmin(u)
                THEN Cleared(blocking[u], blocking'[u])
                ELSE blocking'[u] = blocking[u]]_vars

\* The reset of day 2 has cleared the row of a caller blocked on day 1 and
\* left the admin-blocked row and the monthly usage as they were
C16_Witness ==
    /\ resetRan = 2
    /\ blocking["alice"].last_reset_at = Val(2)
    /\ blocking["alice"].requests_at_blocking # Null
    /\ ~blocking["alice"].is_blocked
    /\ blocking["alice"].daily_requests = 0
    /\ blocking["bob"] = AdminBlocked
    /\ MonthlyCostNow("alice") > 0

\* A reset has run over a row used today, which keeps its counters
C16_SeenRowUsedToday ==
    /\ resetRan = 2
    /\ blocking["alice"].last_request_at = Val(2)
    /\ blocking["alice"].last_reset_at = Null
    /\ blocking["alice"].daily_requests > 0

\* C17: once the reset scheduled for a day has run, every caller without an
\* admin marker has daily counters that hold debits committed on that day
\* only, and is blocked only if those have reached a limit
C17_NothingCarriesOver ==
    resetRan = day =>
        \A u \in Users :
            blocking[u].blocked_by_admin_id = Null =>
                /\ DailyCostNow(u) <= committedToday[u].cost
                /\ DailyRequestsNow(u) <= committedToday[u].requests
                /\ IsBlockedNow(u) =>
                    \/ committedToday[u].cost >= UserRow(u).daily_limit_usd
                    \/ committedToday[u].requests >= UserRow(u).daily_request_limit

----------------------------------------------------------------------------
(* Properties of the metrics worker *)

\* A RecordMetric call returns in this step
Records == nextRow' = nextRow + 1

\* C18: RecordMetric never waits: while the worker is not stopped a call
\* either puts its row at the end of the queue and returns nil or, the queue
\* holding capacity rows, returns the drop error and leaves the queue as it
\* is; the queue never holds more than its capacity
C18_RecordNeverBlocks ==
    /\ [](Len(metricsChan) <= BufferSize)
    /\ [](nextRow \in Rows => ENABLED RecordMetric)
    /\ [][Records /\ ~stopped =>
            IF Len(metricsChan) = BufferSize
            THEN /\ metricsChan' = metricsChan
                 /\ lastRecord' = [row |-> nextRow,
                                   err |-> "metrics channel is full, metric dropped"]
                 /\ nextRow \notin accepted'
            ELSE /\ metricsChan' = metricsChan \o <<nextRow>>
                 /\ lastRecord' = [row |-> nextRow, err |-> "nil"]
                 /\ nextRow \in accepted']_vars

\* A row has been dropped on a full queue by a worker that is not stopped
C18_Witness ==
    /\ lastRecord.err = "metrics channel is full, metric dropped"
    /\ Len(metricsChan) = BufferSize
    /\ ~stopped
    /\ accepted # {}

\* The InsertMetric calls made for row r
InsertsOf(r) == {i \in 1..Len(inserts) : inserts[i].row = r}

\* C19: when Stop has returned, every row RecordMetric accepted has been
\* passed to InsertMetric, were it in the batch or still in the queue
C19_StopDrains ==
    stopPc = "returned" => \A r \in accepted : InsertsOf(r) # {}

\* The rows of a sequence
RowsOf(seq) == {seq[i] : i \in 1..Len(seq)}

\* No row is inserted twice, only accepted rows are inserted, and the batch
\* stays below batch_size: it is flushed in the step that fills it
InsertedAtMostOnce ==
    /\ \A r \in Rows : Cardinality(InsertsOf(r)) <= 1
    /\ \A i \in 1..Len(inserts) : inserts[i].row \in accepted
    /\ Len(batch) <= BatchSize
    /\ Len(batch) < BatchSize
    /\ RowsOf(batch) \cap RowsOf(metricsChan) = {}
    /\ \A r \in RowsOf(batch) \cup RowsOf(metricsChan) : InsertsOf(r) = {}

\* A flush passes every row of the batch to InsertMetric, whatever the
\* outcome of the calls before it, and leaves the batch empty
FlushIsWhole ==
    inserts' # inserts =>
        /\ \A r \in RowsOf(batch) : InsertsOf(r)' # {}
        /\ Len(inserts') = Len(inserts) + Len(batch) + (Len(metricsChan) - Len(metricsChan'))
        /\ Len(inserts') - Len(inserts) <= BatchSize
        /\ batch' = <<>>

\* C20: while the worker runs, every accepted row is in the end passed to
\* InsertMetric, once: the batch is flushed when it reaches batch_size rows or
\* at the next tick, never holds more than batch_size rows, and a failed
\* insert does not keep the other rows of the batch from their insert
C20_EachRowInsertedOnce ==
    /\ []InsertedAtMostOnce
    /\ [][FlushIsWhole]_vars
    /\ \A r \in Rows : (r \in accepted) ~> (InsertsOf(r) # {} \/ stopped)

\* In a running worker a failed insert has been followed by the insert of the
\* next row of the same batch, and every accepted row has been inserted
C20_Witness ==
    /\ ~stopped
    /\ \E i \in 1..Len(inserts) :
        /\ ~inserts[i].ok
        /\ i + 1 <= Len(inserts)
        /\ inserts[i + 1].flush = inserts[i].flush
    /\ accepted # {}
    /\ \A r \in accepted : InsertsOf(r) # {}

\* A tick has flushed a batch that was not full
C20_SeenTickFlush ==
    \E i \in 1..Len(inserts) :
        \A k \in 1..Len(inserts) : k # i => inserts[k].flush # inserts[i].flush

----------------------------------------------------------------------------
(* Properties of the pricing functions *)

\* The four prices the cache-aware cost uses for a model of the catalog: the
\* cache prices of the model, or a tenth of the input price for a cache read
\* and the input price for a cache write
PIn(m) == PricingTable[m].InputPer1KTokens
POut(m) == PricingTable[m].OutputPer1KTokens
PRead(m) ==
    IF PricingTable[m].CacheReadPer1KTokens > 0
    THEN PricingTable[m].CacheReadPer1KTokens
    ELSE PIn(m) \div 10
PWrite(m) ==
    IF PricingTable[m].CacheWritePer1KTokens > 0
    THEN PricingTable[m].CacheWritePer1KTokens
    ELSE PIn(m)

\* max(0, input - cache_read - cache_write)
NNorm(t) ==
    IF t.input - t.cacheRead - t.cacheWrite > 0
    THEN t.input - t.cacheRead - t.cacheWrite
    ELSE 0

CacheAwareCost(m, t) ==
    NNorm(t) * PIn(m) + t.output * POut(m) + t.cacheRead * PRead(m) + t.cacheWrite * PWrite(m)

\* The example of the specification: 0.008415 USD in billionths
ExampleTokens == [input |-> 1000, output |-> 500, cacheRead |-> 800, cacheWrite |-> 100]

\* C26: CalculateCostWithCache returns the cache-aware cost, with the
\* fallback prices for a model without cache prices; for prices 0.003, 0.015,
\* 0.0003, 0.00375 and counts (1000, 500, 800, 100) that is 0.008415 USD
C26_CacheAwareCost ==
    costPc = "done" /\ costModel \in PricedModels =>
        /\ ~costResult.withCache.err
        /\ costResult.withCache.cost = CacheAwareCost(costModel, tokens)
        /\ costModel = "eu.anthropic.claude-sonnet-4-5-v2:0" /\ tokens = ExampleTokens
            => costResult.withCache.cost = 8415000

\* The example has been computed
C26_Witness ==
    /\ costPc = "done"
    /\ costModel = "eu.anthropic.claude-sonnet-4-5-v2:0"
    /\ tokens = ExampleTokens
    /\ costResult.withCache = [cost |-> 8415000, err |-> FALSE]

\* A cost with cache reads has been computed for a model without cache prices
C26_SeenFallback ==
    /\ costPc = "done"
    /\ costModel = "anthropic.claude-3-haiku-20240307-v1:0"
    /\ tokens = ExampleTokens
    /\ costResult.withCache.cost = 100 * 250 + 500 * 1250 + 800 * 25 + 100 * 250

\* The counts with d tokens more in one of them
WithMore(t, which, d) == [t EXCEPT ![which] = @ + d]

\* The change of the two costs when a hundred tokens are added to one count
\* does not depend on the counts: it is the same a hundred tokens further
SameSlopeFurther(m, t, which) ==
    LET here == Priced(m, t)
        next == Priced(m, WithMore(t, which, 100))
        further == Priced(m, WithMore(t, which, 200))
    IN /\ further.withCache.cost - next.withCache.cost
            = next.withCache.cost - here.withCache.cost
       /\ further.plain.cost - next.plain.cost = next.plain.cost - here.plain.cost

ZeroCostsNothing(m) ==
    /\ Priced(m, NoTokens).withCache.cost = 0
    /\ Priced(m, NoTokens).plain.cost = 0

\* C27 as stated: for every known model zero tokens cost nothing and the cost
\* is linear in each count separately, with a constant that does not depend
\* on the counts
C27_LinearInEachCount ==
    costPc = "done" /\ costModel \in PricedModels =>
        /\ ZeroCostsNothing(costModel)
        /\ \A which \in DOMAIN NoTokens : SameSlopeFurther(costModel, tokens, which)

\* The counts are on the side of input = cache_read + cache_write where
\* nothing is clamped / where the normal input is clamped to 0
NotClamped(t) == t.input - t.cacheRead - t.cacheWrite >= 0
Clamped(t) == t.input - t.cacheRead - t.cacheWrite <= 0

\* The count that a step changes, and by how much
Grown(which) ==
    /\ tokens'[which] # tokens[which]
    /\ \A other \in DOMAIN NoTokens \ {which} : tokens'[other] = tokens[other]
Growth(which) == tokens'[which] - tokens[which]

\* What a token more in a count adds to the cache-aware cost on each side
SlopeNotClamped(m, which) ==
    CASE which = "input" -> PIn(m)
      [] which = "output" -> POut(m)
      [] which = "cacheRead" -> PRead(m) - PIn(m)
      [] which = "cacheWrite" -> PWrite(m) - PIn(m)

SlopeClamped(m, which) ==
    CASE which = "input" -> 0
      [] which = "output" -> POut(m)
      [] which = "cacheRead" -> PRead(m)
      [] which = "cacheWrite" -> PWrite(m)

\* ... and to the cost without cache
SlopePlain(m, which) ==
    CASE which = "input" -> PIn(m)
      [] which = "output" -> POut(m)
      [] OTHER -> 0

\* C27, amended: zero tokens cost nothing; CalculateCost is linear in input
\* and output; CalculateCostWithCache is linear in output, and in the three
\* other counts it is linear on each side of input = cache_read + cache_write,
\* with different constants on the two sides
C27_LinearOnEachSide ==
    /\ [](costPc = "done" /\ costModel \in PricedModels /\ tokens = NoTokens =>
            costResult.withCache.cost = 0 /\ costResult.plain.cost = 0)
    /\ [][costPc = "done" /\ costModel \in PricedModels =>
            \A which \in DOMAIN NoTokens :
                Grown(which) =>
                    LET m == costModel
                        d == Growth(which)
                        change == costResult'.withCache.cost - costResult.withCache.cost
                    IN /\ costResult'.plain.cost - costResult.plain.cost
                            = d * SlopePlain(m, which)
                       /\ NotClamped(tokens) /\ NotClamped(tokens') =>
                            change = d * SlopeNotClamped(m, which)
                       /\ Clamped(tokens) /\ Clamped(tokens') =>
                            change = d * SlopeClamped(m, which)]_vars

\* A cost has been computed for counts whose normal input is clamped to 0:
\* the input tokens add nothing to it
C27_Witness ==
    /\ costPc = "done"
    /\ costModel \in PricedModels
    /\ tokens.input > 0
    /\ tokens.input < tokens.cacheRead + tokens.cacheWrite
    /\ costResult.withCache.cost =
            tokens.output * POut(costModel) + tokens.cacheRead * PRead(costModel)
            + tokens.cacheWrite * PWrite(costModel)

----------------------------------------------------------------------------
(* Properties of the orchestrator *)

\* The caller of the request in HandleProxy is absent or has no default
\* inference profile
LacksProfile ==
    /\ hp.pc # "idle"
    /\ \A u \in hp.user : u.DefaultInferenceProfile = ""

RefusedAtOnce ==
    LacksProfile =>
        /\ hp.pc = "returned"
        /\ response = [status |-> 403, events |-> 0]
        /\ hp.backendCalls = 0
        /\ ~provider.open
        /\ post.pc = "none"

\* C21: a request whose caller is absent or has an empty default inference
\* profile is answered 403 by the orchestrator; the backend is not called for
\* it, no usage row is submitted and no counter is debited
C21_NoProfileForbidden ==
    /\ []RefusedAtOnce
    /\ [][LacksProfile' => usageRows' = usageRows /\ counters' = counters]_vars

\* A caller with an empty profile was refused after an earlier request of the
\* run was served and recorded
C21_Witness ==
    /\ LacksProfile
    /\ hp.user # NoUser
    /\ hp.configured
    /\ response.status = 403
    /\ Len(usageRows) = 1

\* A request without any caller was refused
C21_SeenNoCaller == hp.pc = "returned" /\ hp.user = NoUser /\ response.status = 403

StreamReturns ==
    /\ hp'.pc = "returned"
    /\ \/ hp.pc = "streaming"
       \/ hp.pc = "parsed" /\ hp'.backendCalls = hp.backendCalls + 1

PostRuns == post.pc \in {"record", "debit", "block"}

PostOrder == <<"RecordMetric", "UpdateQuotaAndCounters", "CheckAndBlockUser">>

\* The steps of post-processing so far are the first ones of the order
PostInOrder ==
    /\ Len(post.steps) =
            CASE post.pc \in {"none", "record"} -> 0
              [] post.pc = "debit" -> 1
              [] post.pc = "block" -> 2
              [] post.pc = "done" -> 3
    /\ \A i \in 1..Len(post.steps) : post.steps[i].call = PostOrder[i]
    /\ post.pc # "none" => post.ctx = "background"

\* C23: for a streamed request with the store and the metrics worker
\* configured, post-processing is started once, by the step in which the stream
\* returns, also when the stream ended early or with an error, and by no other
\* step; it runs on a detached context; its steps are the usage row, the debit
\* and the block check in this order, the block check also after a failed
\* debit; none of its steps changes what the client was sent
C23_PostProcessingOnce ==
    /\ []PostInOrder
    /\ [][StreamReturns /\ hp.configured => post.pc = "none" /\ post'.pc = "record"]_vars
    /\ [][post'.pc = "record" /\ post.pc # "record" => StreamReturns /\ hp.configured]_vars
    /\ [][PostRuns => response' = response]_vars
    /\ [][post.pc = "debit" /\ post' # post => post'.pc = "block"]_vars

\* Post-processing of a stream that ended with an error has run to its end,
\* its debit failed and its block check ran
C23_Witness ==
    /\ post.pc = "done"
    /\ hp.streamErr
    /\ ~post.steps[2].ok
    /\ post.steps[3].ok

\* The call that opens the provider's stream failed
FailedToStart == hp.pc = "returned" /\ hp.streamErr /\ provider = NoProvider

\* C24: when the provider's streaming call fails to start, the client is sent
\* 502; a streamed request is answered 2xx only if the provider's stream was
\* opened
C24_FailedStartIs502 ==
    /\ FailedToStart => response.status = 502
    /\ hp.isStream /\ response.status \in 200..299 => provider # NoProvider

\* C25: the cost in a usage row is the cache-aware cost of the counts
\* captured for it, and so is the cost debited
C25_RowCostIsCacheAware ==
    /\ \A i \in 1..Len(usageRows) :
            usageRows[i].ModelID \in PricedModels =>
                usageRows[i].CostUSD = CacheAwareCost(usageRows[i].ModelID, usageRows[i].Tokens)
    /\ post.pc \in {"debit", "block", "done"} /\ ModelOf(hp.user) \in PricedModels =>
            post.cost = CacheAwareCost(ModelOf(hp.user), hp.captured)

\* The model of the request being post-processed has no price
Unpriced == post.pc # "none" /\ \A u \in hp.user : u.DefaultInferenceProfile \notin PricedModels

UnpricedCostsNothing ==
    /\ Unpriced => hp.pc = "returned" /\ response.status = 200
    /\ Unpriced /\ post.pc # "record" => post.cost = 0 /\ post.steps[1].call = "RecordMetric"
    /\ \A i \in 1..Len(usageRows) :
            usageRows[i].ModelID \notin PricedModels => usageRows[i].CostUSD = 0

DebitCommits == post.pc = "debit" /\ post'.pc = "block" /\ post'.steps[2].ok

RowTaken == post.pc = "record" /\ post'.pc = "debit" /\ post'.steps[1].ok

\* C28: a model without a price costs 0 and does not fail the request: its
\* usage row is submitted with cost 0, and its debit adds 1 to the daily and
\* to the monthly request count and nothing to the cost counters
C28_UnknownModelCostsZero ==
    /\ []UnpricedCostsNothing
    /\ [][Unpriced /\ RowTaken =>
            /\ Len(usageRows') = Len(usageRows) + 1
            /\ usageRows'[Len(usageRows')].CostUSD = 0]_vars
    /\ [][Unpriced /\ DebitCommits =>
            /\ counters'.daily_requests = counters.daily_requests + 1
            /\ counters'.total_requests = counters.total_requests + 1
            /\ counters'.daily_cost_usd = counters.daily_cost_usd
            /\ counters'.total_cost_usd = counters.total_cost_usd]_vars

\* A request for a model without a price was recorded and debited after a
\* priced one, whose cost is still what the cost counters hold
C28_Witness ==
    /\ Unpriced
    /\ post.pc = "done"
    /\ post.steps[2].ok
    /\ Len(usageRows) = 2
    /\ usageRows[2].CostUSD = 0
    /\ counters.daily_requests = 2
    /\ counters.daily_cost_usd > 0

----------------------------------------------------------------------------
(* Properties of the translation of blocks *)

\* The text blocks of the request, in their order
TextsOf == SelectSeq(blocks, LAMBDA b : b.type = "text")

OnlyTexts == \A i \in 1..Len(blocks) : blocks[i].type = "text"

Ephemeral(b) == b.cache_control = "ephemeral"

\* Number of ephemeral blocks among the first k text blocks
EphemeralUpTo(k) == Cardinality({i \in 1..k : Ephemeral(TextsOf[i])})

\* The place of the k-th text block in the translation
PlaceOf(k) == k + EphemeralUpTo(k - 1)

IsCachePoint(x) == x.member = "CachePoint"

\* Every text block is at its place with its text, followed by a cache point
\* exactly when it is ephemeral, and there is nothing else
PointsFollowEphemeral ==
    /\ Len(translated) = Len(TextsOf) + EphemeralUpTo(Len(TextsOf))
    /\ \A k \in 1..Len(TextsOf) :
            /\ translated[PlaceOf(k)] = [member |-> "Text", Value |-> TextsOf[k].text]
            /\ Ephemeral(TextsOf[k]) => IsCachePoint(translated[PlaceOf(k) + 1])

PointsWellPlaced ==
    /\ translated # <<>> => ~IsCachePoint(translated[1])
    /\ \A i \in 1..(Len(translated) - 1) :
            ~(IsCachePoint(translated[i]) /\ IsCachePoint(translated[i + 1]))

\* C29: the translation of a sequence of system text blocks, or of the text
\* blocks of a message's content, keeps their order and puts one cache point
\* right after each text block whose cache_control is of type ephemeral and
\* nowhere else: no cache point comes first, none comes before its block, no
\* two are adjacent; [text "hello", ephemeral] gives [TextBlock("hello"),
\* CachePointBlock]
C29_CachePointAfterEphemeral ==
    /\ blockKind = "content" \/ (blockKind = "system" /\ OnlyTexts) => PointsFollowEphemeral
    /\ blockKind # "" => PointsWellPlaced
    /\ blockKind # "" /\ blocks = <<[type |-> "text", text |-> "hello", cache_control |-> "ephemeral"]>> =>
            translated = <<[member |-> "Text", Value |-> "hello"],
                           [member |-> "CachePoint", Value |-> "default"]>>

\* A system array of three text blocks, the first and the last ephemeral and
\* the middle one with another cache_control, was translated
C29_Witness ==
    /\ blockKind = "system"
    /\ Len(blocks) = 3
    /\ OnlyTexts
    /\ Ephemeral(blocks[1]) /\ blocks[2].cache_control = "persistent" /\ Ephemeral(blocks[3])
    /\ Len(translated) = 5

\* The example was translated as a message's content
C29_SeenExample ==
    /\ blockKind = "content"
    /\ blocks = <<[type |-> "text", text |-> "hello", cache_control |-> "ephemeral"]>>
    /\ Len(translated) = 2

----------------------------------------------------------------------------
(* The window of the per-token-hash limit *)

\* The token hash was locked at some time
HashWasLocked(h) == tokenAttempts[h].exists /\ tokenAttempts[h].BlockedUntil > ZeroTime

\* The time at which the token hash was locked last
HashLockedAt(h) == tokenAttempts[h].BlockedUntil - blockDuration

\* C30: a token hash is locked only when the failures counted for it fall
\* within one window: the failure that locked it is at most one window after
\* the first failure counted
C30_TokenLimitWindowed ==
    \A h \in DOMAIN tokenAttempts :
        HashWasLocked(h) => HashLockedAt(h) - tokenAttempts[h].FirstAttempt <= windowDuration

----------------------------------------------------------------------------
(* The shape of the retained text *)

\* The text is one unfinished tag: it begins with '<', has no '>' and no
\* other '<', and what follows the '<' may start a tag
UnfinishedTag(s) ==
    /\ s[1] = "<"
    /\ \A i \in 2..Len(s) : s[i] # "<"
    /\ \A i \in 1..Len(s) : s[i] # ">"
    /\ Len(s) > 1 => s[2] \in TagStartChars

\* C40: after every ProcessChunk call the retained text is empty, or is one
\* unfinished tag of at most maxBufferSize characters: it begins with '<',
\* holds no '>' and no second '<', and its second character, when it has one,
\* is a letter, '_', '/' or '!'
C40_RetainedIsUnfinishedTag ==
    lastOp = "chunk" =>
        \/ xmlBuffer.buffer = <<>>
        \/ /\ UnfinishedTag(xmlBuffer.buffer)
           /\ Len(xmlBuffer.buffer) <= xmlBuffer.maxBufferSize

\* A call retained a tag of exactly maxBufferSize characters, more than one,
\* after earlier text with a '<' and a '>' was sent
C40_Witness ==
    /\ lastOp = "chunk"
    /\ Len(xmlBuffer.buffer) = xmlBuffer.maxBufferSize
    /\ Len(xmlBuffer.buffer) > 1
    /\ \E i \in 1..Len(emitted) : emitted[i] = "<"
    /\ \E i \in 1..Len(emitted) : emitted[i] = ">"

----------------------------------------------------------------------------
(* The end of a stream *)

EventsOfKind(kind) == {k \in 1..Len(events) : events[k].kind = kind}

\* The output token counts the provider reported in its Metadata events
ReportedOutput ==
    {n \in 0..100 : \E k \in EventsOfKind("Metadata") :
        \E u \in events[k].usage : u.OutputTokens = {n}}

\* The provider delivered one MessageStop and one Metadata, which reports the
\* output count, and the stream then ended
OneStopOneMetadata ==
    /\ streamState = "returned"
    /\ Cardinality(EventsOfKind("MessageStop")) = 1
    /\ Cardinality(EventsOfKind("Metadata")) = 1
    /\ ReportedOutput # {}

\* C32: on MessageStop the adapter emits message_delta and right after it
\* message_stop, and the output_tokens of message_delta is the output count of
\* the stream's Metadata event, whichever of Metadata and MessageStop the
\* provider delivered first
C32_DeltaCarriesReportedOutput ==
    /\ \A k \in EventsOfKind("MessageStop") :
            \E i \in 1..(Len(sse) - 1) :
                /\ sse[i].type = "message_delta" /\ sse[i].at = k
                /\ sse[i + 1].type = "message_stop" /\ sse[i + 1].at = k
    /\ OneStopOneMetadata =>
            \A i \in SsePositions("message_delta") : sse[i].output_tokens \in ReportedOutput

\* The text of the first n elements of a sequence of events, concatenated
RECURSIVE TextUpTo(_, _)
TextUpTo(seq, n) == IF n = 0 THEN <<>> ELSE TextUpTo(seq, n - 1) \o seq[n].text

\* The step handles a ContentBlockStop
HandlesBlockStop ==
    /\ Len(events') = Len(events) + 1
    /\ events'[Len(events')].kind = "ContentBlockStop"

BlockStopWritten(at) == [type |-> "content_block_stop", at |-> at]

\* What the step wrote: the type and, for a delta, the text of each event
Written ==
    [i \in 1..(Len(sse') - Len(sse)) |->
        IF sse'[Len(sse) + i].type = "content_block_delta"
        THEN [type |-> "content_block_delta", text |-> sse'[Len(sse) + i].text]
        ELSE [type |-> sse'[Len(sse) + i].type]]

FlushThenStop ==
    HandlesBlockStop =>
        /\ xmlBuffer'.buffer = <<>>
        /\ Written = IF xmlBuffer.buffer # <<>>
                     THEN <<[type |-> "content_block_delta", text |-> xmlBuffer.buffer],
                            [type |-> "content_block_stop"]>>
                     ELSE <<[type |-> "content_block_stop"]>>

StopsAreWhole ==
    /\ \A i \in SsePositions("content_block_stop") :
            TextUpTo(sse, i) = TextUpTo(events, sse[i].at)
    /\ \A i \in SsePositions("content_block_delta") : sse[i].text # <<>>

\* C33: on ContentBlockStop the adapter first emits the text still held in the
\* tag buffer as a last content_block_delta and only then content_block_stop;
\* when content_block_stop is emitted the buffer is empty and the text of all
\* deltas emitted so far is the text received so far; no content_block_delta
\* has an empty text
C33_FlushBeforeBlockStop == []StopsAreWhole /\ [][FlushThenStop]_vars

\* A content_block_stop was written right after the delta of a retained "<a",
\* both for the same provider event
C33_Witness ==
    \E i \in SsePositions("content_block_stop") :
        /\ i > 1
        /\ sse[i - 1].type = "content_block_delta"
        /\ sse[i - 1].at = sse[i].at
        /\ sse[i - 1].text = <<"<", "a">>

\* C35: when the adapter has returned, the text of all content_block_delta
\* events emitted is the text of all text deltas received, also when the
\* stream ended without a ContentBlockStop after the last text delta
C35_NoTextLostAtReturn ==
    streamState = "returned" => TextUpTo(sse, Len(sse)) = TextUpTo(events, Len(events))

\* After the provider event k only Metadata events were delivered
OnlyMetadataAfter(k) == \A j \in (k + 1)..Len(events) : events[j].kind = "Metadata"

\* C36: message_stop is the last SSE event of a stream, whichever of Metadata
\* and MessageStop the provider delivers first: when the provider delivers
\* nothing but Metadata after its MessageStop, nothing is emitted after
\* message_stop
C36_MessageStopIsLast ==
    \A i \in SsePositions("message_stop") : OnlyMetadataAfter(sse[i].at) => i = Len(sse)

----------------------------------------------------------------------------
(* The end of a source's lockout *)

\* The source was locked out, the lockout is over, and the window the
\* lockout was set in has not been restarted since
LockExpired(ip) ==
    /\ ipAttempts[ip].exists
    /\ ipAttempts[ip].BlockedUntil > ZeroTime
    /\ now >= ipAttempts[ip].BlockedUntil
    /\ ipAttempts[ip].FirstAttempt <= ipAttempts[ip].BlockedUntil - blockDuration

DeniedNotExtended(ip) ==
    Arrives /\ ArrivingIP = ip /\ SourceLocked(ip) =>
        /\ Answers
        /\ answered'.status = 429
        /\ answered'.retryAfter = ipAttempts[ip].BlockedUntil - now
        /\ ipAttempts'[ip].BlockedUntil = ipAttempts[ip].BlockedUntil

AllowedAfterExpiry(ip) ==
    Arrives /\ ArrivingIP = ip /\ LockExpired(ip) =>
        /\ ~Answers
        /\ ipAttempts'[ip].Count = 0
        /\ ipAttempts'[ip].FirstAttempt = now
        /\ ipAttempts'[ip].BlockedUntil = ipAttempts[ip].BlockedUntil

\* C34: a source's lockout expires: while the source is locked out, no step
\* moves blocked_until, and a request of the source is denied with the rest of
\* the block; the first request of the source once blocked_until has passed
\* passes the source check with the counter reset (blockDuration is longer
\* than windowDuration)
C34_LockoutExpires ==
    /\ [][\A ip \in IPs : SourceLocked(ip) =>
            ipAttempts'[ip].BlockedUntil = ipAttempts[ip].BlockedUntil]_vars
    /\ [][\A ip \in IPs : DeniedNotExtended(ip) /\ AllowedAfterExpiry(ip)]_vars

\* A request of a source that was locked out is past the source check, at or
\* after the end of the lockout, with the counter reset by that check
C34_Witness ==
    \E s \in Slots :
        /\ req[s].pc # "idle"
        /\ ipAttempts[req[s].ip].BlockedUntil > ZeroTime
        /\ now >= ipAttempts[req[s].ip].BlockedUntil
        /\ ipAttempts[req[s].ip].FirstAttempt = now
        /\ ipAttempts[req[s].ip].Count = 0

\* C37: under any interleaving of concurrent requests of one source, no more
\* than maxAttemptsPerIP requests with invalid credentials get past the source
\* check within one window: the failures counted for a source within its
\* current window never exceed maxAttemptsPerIP
C37_AtMostLimitPassInWindow ==
    \A ip \in IPs :
        ipAttempts[ip].exists /\ now - ipAttempts[ip].FirstAttempt <= windowDuration =>
            ipAttempts[ip].Count <= maxAttemptsPerIP

\* C39: every request the orchestrator forwards to the backend, streamed or
\* not, gets one post-processing with one usage row submitted and one debit:
\* when HandleProxy has returned from a request that the backend answered,
\* with the store and the metrics worker configured, the post-processing of the
\* request has been started
C39_ForwardedIsDebited ==
    /\ hp.pc = "returned"
    /\ hp.backendCalls > 0
    /\ response.status = 200
    /\ hp.configured
    => post.pc # "none"

----------------------------------------------------------------------------
(* The channels of the metrics worker at shutdown *)

ClosedOnceInOrder ==
    /\ closes.stopChan <= 1
    /\ closes.metricsChan <= 1
    /\ closes.metricsChan > 0 => workerPc = "returned" /\ closes.stopChan = 1

\* The step puts a row into the queue channel
Sends == Len(metricsChan') > Len(metricsChan)

\* The step is a Stop call
StopIsCalled == stopCalls' = stopCalls + 1

\* C38: under any interleaving of RecordMetric and Stop calls no row is sent
\* on the closed queue channel and no channel is closed twice: once stopped is
\* set every RecordMetric returns the stopped error and sends nothing, a Stop
\* called again closes nothing, and run() has returned before the queue channel
\* is closed
C38_NoSendOnClosedNoDoubleClose ==
    /\ []ClosedOnceInOrder
    /\ [][Sends => closes.metricsChan = 0 /\ ~stopped]_vars
    /\ [][Records /\ stopped =>
            lastRecord'.err = "metrics worker is stopped" /\ metricsChan' = metricsChan]_vars
    /\ [][StopIsCalled /\ stopped => closes' = closes /\ stopChan' = stopChan]_vars

\* Stop was called twice and has returned with each channel closed once, and
\* a RecordMetric called after it was refused
C38_Witness ==
    /\ stopCalls = 2
    /\ stopPc = "returned"
    /\ closes = [stopChan |-> 1, metricsChan |-> 1]
    /\ lastRecord.err = "metrics worker is stopped"
    /\ metricsChan # <<>>

----------------------------------------------------------------------------
(* Properties of the logger *)

\* The places of the output that hold the entry
WrittenAt(entry) == {i \in 1..Len(logOutput) : logOutput[i].entry = entry}

\* The entries logged before Close was called, at or above the minimum level
DueEntries ==
    {e \in 1..Len(logCalls) : logCalls[e].beforeClose /\ logCalls[e].level >= logger.MinLevel}

AllWrittenAtClose ==
    logger.Async /\ logger.closePc = "returned" =>
        \A e \in DueEntries : Cardinality(WrittenAt(e)) = 1

NeverTwiceNeverBelow ==
    \A e \in 1..Len(logCalls) :
        /\ Cardinality(WrittenAt(e)) <= 1
        /\ logCalls[e].level < logger.MinLevel => WrittenAt(e) = {}

\* C31: with an asynchronous logger every entry logged at or above the
\* minimum level before Close is called has been written to the output exactly
\* once when Close returns, also an entry that found the buffer full; no entry
\* is written twice, and an entry below the minimum level is never written
C31_AsyncEntriesWrittenOnce == AllWrittenAtClose /\ NeverTwiceNeverBelow

\* Close has returned on an asynchronous logger after an entry was written by
\* the worker, a later one was written by its caller because the buffer was
\* full, and an entry below the minimum level was dropped
C31_Witness ==
    /\ logger.Async
    /\ logger.closePc = "returned"
    /\ \E i, j \in 1..Len(logOutput) :
            logOutput[i].by = "worker" /\ logOutput[j].by = "caller"
    /\ \E e \in 1..Len(logCalls) : logCalls[e].level < logger.MinLevel

============================================================================
